---------------------------- MODULE Spec2Model ----------------------------
(***************************************************************************)
(* A model of the nearcast-agents decision pipeline: the Decision          *)
(* Validator (brain.js validateActions), the per-agent Ledger (memory.js   *)
(* createMemory) with the resolution check of agent.js, the shared         *)
(* Research Cache (shared-research.js), and the Cycle Orchestrator         *)
(* (orchestrator.js start, cycle, pushAllStats, stop).                     *)
(*                                                                         *)
(* Amounts are whole multiples of half a NEAR (1.5 NEAR is 3, 4.0 NEAR is  *)
(* 8).  A JavaScript value that reaches a numeric field is a record        *)
(* [k, v]: k says what kind of value it is, v carries the number (or the   *)
(* length of a text) and is 0 where the kind has none.                     *)
(***************************************************************************)
EXTENDS Integers, Sequences, FiniteSets, TLC

VARIABLES
    \* ---- Decision Validator: one call of validateActions
    rawActions,     \* the untrusted action list: [arr, items]
    balance,        \* the balance handed to the call
    config,         \* the agent's configuration: [maxBetNear]
    vpc,            \* "ready" before the call, "done" after it
    validated,      \* what the call left behind: [threw, out, keep, items]
    \* ---- Ledger: the bets table of one agent
    bets,           \* the rows, in id order
    now,            \* the wall clock read by datetime('now')
    lastCall,       \* the ledger call that led to this state, and its outcome
    \* ---- Research Cache: the research table
    research,       \* the rows, in id order
    rnow,           \* the wall clock, in ticks
    lastFresh,      \* the hasRecentResearch call that led to this state, and its answer
    scan,           \* where doResearch is suspended, and what it has done so far
    agentScan,      \* per stand-alone agent: where its Agent.doResearch is suspended
    \* ---- Orchestrator: start() and the cycle it runs
    running,        \* Orchestrator.running
    cycleCount,     \* Orchestrator.cycleCount
    pc,             \* where start() or cycle() is suspended
    idx,            \* the agent a loop of cycle() has reached
    jdx,            \* the action the dispatch loop has reached
    memOpen,        \* per agent: its memory.db is open (Agent.stop closes it)
    agentBets,      \* per agent: the rows of its bets table
    agentContexts,  \* the contexts collected in this cycle
    allActions,     \* what thinkAll was answered and what it returned
    freshMarkets,   \* the markets with research younger than 30 minutes
    trace           \* what the cycle in progress has done so far

valVars      == <<rawActions, balance, config, vpc, validated>>
ledgerVars   == <<bets, now, lastCall>>
researchVars == <<research, rnow, lastFresh, scan, agentScan>>
orchVars     == <<running, cycleCount, pc, idx, jdx, memOpen, agentBets,
                 agentContexts, allActions, freshMarkets, trace>>
vars         == <<valVars, ledgerVars, researchVars, orchVars>>

---------------------------------------------------------------------------
(* JavaScript values *)

Num(n)  == [k |-> "num", v |-> n]
Str(n)  == [k |-> "str", v |-> n]      \* the text of the number n, "3"
Txt(n)  == [k |-> "text", v |-> n]     \* a text of n characters that is no number
NaN     == [k |-> "nan", v |-> 0]
Inf     == [k |-> "inf", v |-> 0]      \* +Infinity, also the text "Infinity"
NegInf  == [k |-> "ninf", v |-> 0]     \* -Infinity, also the text "-Infinity"
Absent  == [k |-> "absent", v |-> 0]   \* undefined or null

\* Number(x) of a value that is not null
ToNumber(x) ==
    CASE x.k = "num"  -> x
      [] x.k = "str"  -> Num(x.v)
      [] x.k = "inf"  -> Inf
      [] x.k = "ninf" -> NegInf
      [] x.k = "text" -> IF x.v = 0 THEN Num(0) ELSE NaN
      [] OTHER        -> NaN

\* if (a.f != null) a.f = Number(a.f)
Coerce(x) == IF x.k = "absent" THEN x ELSE ToNumber(x)

\* typeof x === "number" && !isNaN(x)
IsRealNumber(x) == x.k \in {"num", "inf", "ninf"}

\* x < n, x <= n, x > n for a number x that is not NaN and an integer n
LessThan(x, n)    == x.k = "ninf" \/ (x.k = "num" /\ x.v < n)
AtMost(x, n)      == x.k = "ninf" \/ (x.k = "num" /\ x.v <= n)
GreaterThan(x, n) == x.k = "inf" \/ (x.k = "num" /\ x.v > n)

\* the sequences over S of length at most n
SeqsUpTo(S, n) == UNION {[1..k -> S] : k \in 0..n}

---------------------------------------------------------------------------
(* Decision Validator *)

MaxActions == 3
MaxAmount  == 6
MaxBalance == 8

DefaultMaxBet == 4      \* config.maxBetNear || 2, in half NEAR
MessageLimit  == 500

markets == {1}                              \* the ids of the active snapshot
ActiveMarket == CHOOSE m \in markets : TRUE

Action(t, m, o, a, msg) ==
    [type |-> t, marketId |-> m, outcome |-> o, amount |-> a, message |-> msg]

Bet(m, o, a)    == Action("bet", m, o, a, Absent)
Chat(m, msg)    == Action("chat", m, Absent, Absent, msg)
Reply(m, msg)   == Action("reply", m, Absent, Absent, msg)
NullAction      == Action("null", Absent, Absent, Absent, Absent)   \* a null entry
NoTypeAction    == Action("", Num(ActiveMarket), Num(0), Num(1), Absent)
SkipAction      == Action("skip", Num(ActiveMarket), Absent, Absent, Absent)

GoodBet(n) == Bet(Num(ActiveMarket), Num(0), Num(n))

\* const maxBet = config.maxBetNear || 2   (0 stands for a missing or zero setting)
MaxBetOf(cfg) == IF cfg.maxBetNear = 0 THEN DefaultMaxBet ELSE cfg.maxBetNear

\* the three coercions at the head of the filter callback
CoerceFields(a) ==
    [a EXCEPT !.marketId = Coerce(a.marketId),
              !.outcome  = Coerce(a.outcome),
              !.amount   = Coerce(a.amount)]

\* validMarketIds.has(a.marketId)
HasMarket(validMarketIds, a) ==
    a.marketId.k = "num" /\ a.marketId.v \in validMarketIds

\* if (a.amount > maxBet) a.amount = maxBet
ClampNoop(x, maxBet) == x
Clamp(x, maxBet) == IF GreaterThan(x, maxBet) THEN Num(maxBet) ELSE x

\* if (totalBet + a.amount > balance) return false
OverBudgetNever(totalBet, amount, bal) == FALSE
OverBudgetAtLimit(totalBet, amount, bal) == totalBet + amount >= bal
OverBudget(totalBet, amount, bal) == totalBet + amount > bal

\* !(!a.message || typeof a.message !== "string")
IsNonEmptyString(msg) == msg.k = "str" \/ (msg.k = "text" /\ msg.v > 0)

\* if (a.message.length > 500) a.message = a.message.slice(0, 500)
TruncateNever(msg) == msg
Truncate(msg) ==
    IF msg.k = "text" /\ msg.v > MessageLimit THEN Txt(MessageLimit) ELSE msg

\* One run of the filter callback on an element that is not null:
\* [keep, a, totalBet] is the callback's answer, the element as the callback
\* left it, and the running total afterwards.
FilterStep(a0, totalBet, validMarketIds, bal, maxBet) ==
    IF a0.type = "" THEN [keep |-> FALSE, a |-> a0, totalBet |-> totalBet]
    ELSE
    LET a == CoerceFields(a0) IN
    IF a.type = "bet" THEN
        IF ~HasMarket(validMarketIds, a)
            THEN [keep |-> FALSE, a |-> a, totalBet |-> totalBet]
        ELSE IF ~IsRealNumber(a.outcome) \/ LessThan(a.outcome, 0)
            THEN [keep |-> FALSE, a |-> a, totalBet |-> totalBet]
        ELSE IF ~IsRealNumber(a.amount) \/ AtMost(a.amount, 0)
            THEN [keep |-> FALSE, a |-> a, totalBet |-> totalBet]
        ELSE LET c == [a EXCEPT !.amount = Clamp(a.amount, maxBet)] IN
             IF OverBudget(totalBet, c.amount.v, bal)
                 THEN [keep |-> FALSE, a |-> c, totalBet |-> totalBet]
                 ELSE [keep |-> TRUE, a |-> c, totalBet |-> totalBet + c.amount.v]
    ELSE IF a.type \in {"chat", "reply"} THEN
        IF ~HasMarket(validMarketIds, a)
            THEN [keep |-> FALSE, a |-> a, totalBet |-> totalBet]
        ELSE IF ~IsNonEmptyString(a.message)
            THEN [keep |-> FALSE, a |-> a, totalBet |-> totalBet]
        ELSE [keep |-> TRUE, a |-> [a EXCEPT !.message = Truncate(a.message)],
              totalBet |-> totalBet]
    ELSE [keep |-> FALSE, a |-> a, totalBet |-> totalBet]

\* actions.filter(callback) from element i on.  acc = [threw, out, keep, items]:
\* out is the array filter returns, keep the callback's answers so far, items
\* the elements of the input array as the callbacks left them; a null element
\* makes a.type throw, and nothing is returned.
RECURSIVE FilterFrom(_, _, _, _, _, _, _)
FilterFrom(items, i, totalBet, validMarketIds, bal, maxBet, acc) ==
    IF i > Len(items) THEN acc
    ELSE IF items[i].type = "null"
        THEN [threw |-> TRUE, out |-> <<>>, keep |-> acc.keep,
              items |-> acc.items \o SubSeq(items, i, Len(items))]
    ELSE LET r == FilterStep(items[i], totalBet, validMarketIds, bal, maxBet) IN
         FilterFrom(items, i + 1, r.totalBet, validMarketIds, bal, maxBet,
                    [threw |-> FALSE,
                     out   |-> IF r.keep THEN Append(acc.out, r.a) ELSE acc.out,
                     keep  |-> Append(acc.keep, r.keep),
                     items |-> Append(acc.items, r.a)])

NoResult == [threw |-> FALSE, out |-> <<>>, keep |-> <<>>, items |-> <<>>]

validateActions(actions, mkts, bal, cfg) ==
    IF ~actions.arr THEN NoResult
    ELSE FilterFrom(actions.items, 1, 0, mkts, bal, MaxBetOf(cfg), NoResult)

---------------------------------------------------------------------------
(* Ledger: the bets table of createMemory, and Agent.checkResolutions *)

MaxBets  == 2       \* rows the table may hold
MaxTime  == 2       \* the clock runs from 1 to MaxTime
MaxWager == 2       \* amounts recordBet is called with
MaxChain == 2       \* length of the authoritative history given to syncFromChain

NoTime == 0         \* resolved_at IS NULL

MarketIds == {1, 2}
Outcomes  == {0, 1}

\* pnl_near is a fraction n/d of half a NEAR, in lowest terms with d > 0
RECURSIVE GCD(_, _)
GCD(a, b) == IF b = 0 THEN a ELSE GCD(b, a % b)

Abs(x) == IF x < 0 THEN -x ELSE x

Rat(n, d) ==
    LET g == GCD(Abs(n), Abs(d))
        s == IF d < 0 THEN -1 ELSE 1
    IN  [n |-> s * (n \div g), d |-> s * (d \div g)]

Zero == Rat(0, 1)

\* the sum of two fractions
RatAdd(x, y) == Rat(x.n * y.d + y.n * x.d, x.d * y.d)

\* chain and mkts are the arguments of a syncFromChain call that wrote rows;
\* stats is what a getStats call returned;
\* offered counts the chain bets of a syncFromChain call that qualify for import,
\* inserted the insert.run calls that went through inside its transaction;
\* answers are what api.getMarket gave a checkResolutions run, one answer for
\* each pending row in the order the rows were read
NoCall ==
    [op |-> "none", marketId |-> 0, ret |-> 0, threw |-> FALSE,
     offered |-> 0, inserted |-> 0, chain |-> <<>>, mkts |-> <<>>,
     answers |-> <<>>, stats |-> <<>>]

\* A row of bets.  Its place in the sequence is its id; odds_at_bet, reasoning
\* and created_at, which no operation of the ledger reads back, are left out.
Row(m, o, amt, res, pnl, resolved) ==
    [market_id |-> m, outcome |-> o, amount_near |-> amt, result |-> res,
     pnl_near |-> pnl, resolved_at |-> resolved]

\* INSERT INTO bets (market_id, outcome, amount_near, odds_at_bet, reasoning)
InsertBet(rows, m, o, amt) ==
    Append(rows, Row(m, o, amt, "pending", Zero, NoTime))

\* the WHERE clause of resolveBet's UPDATE
MatchesMarketOnly(r, m) == r.market_id = m
Matches(r, m) == r.market_id = m /\ r.result = "pending"

\* UPDATE bets SET result = ?, pnl_near = ?, resolved_at = datetime('now')
\*   WHERE market_id = ? AND result = 'pending'
UpdateWithoutTime(rows, m, res, pnl, t) ==
    [i \in DOMAIN rows |->
        IF rows[i].market_id = m /\ rows[i].result = "pending"
            THEN [rows[i] EXCEPT !.result = res, !.pnl_near = pnl]
            ELSE rows[i]]
UpdateResolved(rows, m, res, pnl, t) ==
    [i \in DOMAIN rows |->
        IF Matches(rows[i], m)
            THEN [rows[i] EXCEPT !.result = res, !.pnl_near = pnl, !.resolved_at = t]
            ELSE rows[i]]

\* SELECT * FROM bets WHERE result = 'pending'
getPendingBets(rows) == SelectSeq(rows, LAMBDA r : r.result = "pending")

recordBet(m, o, amt) ==
    /\ Len(bets) < MaxBets
    /\ bets' = InsertBet(bets, m, o, amt)
    /\ lastCall' = [NoCall EXCEPT !.op = "recordBet", !.marketId = m]
    /\ UNCHANGED <<now, valVars, researchVars, orchVars>>

resolveBet(m, res, pnl) ==
    /\ bets' = UpdateResolved(bets, m, res, pnl, now)
    /\ lastCall' = [NoCall EXCEPT !.op = "resolveBet", !.marketId = m]
    /\ UNCHANGED <<now, valVars, researchVars, orchVars>>

\* SELECT COUNT(*) as c FROM bets WHERE result = ?
CountResult(rows, res) == Len(SelectSeq(rows, LAMBDA r : r.result = res))

\* getTotalPnL(): SELECT COALESCE(SUM(pnl_near), 0) FROM bets WHERE result != 'pending'
RECURSIVE getTotalPnL(_)
getTotalPnL(rows) ==
    IF rows = <<>> THEN Zero
    ELSE IF Head(rows).result # "pending"
        THEN RatAdd(Head(rows).pnl_near, getTotalPnL(Tail(rows)))
        ELSE getTotalPnL(Tail(rows))

\* SELECT COALESCE(SUM(amount_near), 0) as s FROM bets
RECURSIVE SumAmounts(_)
SumAmounts(rows) ==
    IF rows = <<>> THEN 0 ELSE Head(rows).amount_near + SumAmounts(Tail(rows))

\* winRate: total > 0 ? (won / (won + lost) || 0) : 0;  0 / 0 is NaN, and
\* NaN || 0 is 0
WinRateOfTotal(total, won, lost) ==
    IF total > 0 THEN Rat(won, total) ELSE Zero
WinRate(total, won, lost) ==
    IF total > 0
        THEN (IF won + lost = 0 THEN Zero ELSE Rat(won, won + lost))
        ELSE Zero

Stats(rows) ==
    LET total == Len(rows)
        won   == CountResult(rows, "won")
        lost  == CountResult(rows, "lost")
    IN  [total |-> total, won |-> won, lost |-> lost,
         pending |-> CountResult(rows, "pending"),
         pnl |-> getTotalPnL(rows), totalBet |-> SumAmounts(rows),
         winRate |-> WinRate(total, won, lost)]

getStats ==
    /\ lastCall' = [NoCall EXCEPT !.op = "getStats", !.stats = Stats(bets)]
    /\ UNCHANGED <<bets, now, valVars, researchVars, orchVars>>

\* What api.getMarket(id) can give: a throw, nothing, or a market with a status
\* ("closed" stands for any status other than active, resolved and voided).
ApiAnswers ==
    {[ok |-> FALSE, found |-> FALSE, status |-> "", winning_outcome |-> 0],
     [ok |-> TRUE, found |-> FALSE, status |-> "", winning_outcome |-> 0],
     [ok |-> TRUE, found |-> TRUE, status |-> "active", winning_outcome |-> 0],
     [ok |-> TRUE, found |-> TRUE, status |-> "closed", winning_outcome |-> 0],
     [ok |-> TRUE, found |-> TRUE, status |-> "voided", winning_outcome |-> 0]}
    \cup {[ok |-> TRUE, found |-> TRUE, status |-> "resolved", winning_outcome |-> w] :
            w \in Outcomes}

\* pnl = won ? bet.amount_near * 1.5 : -bet.amount_near
ResolutionPnl(won, amt) == IF won THEN Rat(3 * amt, 2) ELSE Rat(-amt, 1)

\* The loop of checkResolutions over the pending rows read at its start; api
\* holds what "await api.getMarket(bet.market_id)" gives for each of them, in
\* order: every turn of the loop makes a call of its own.
RECURSIVE CheckLoop(_, _, _, _)
CheckLoop(rows, pending, api, t) ==
    IF pending = <<>> THEN rows
    ELSE LET bet == Head(pending)
             market == Head(api)
         IN  IF ~market.ok \/ ~market.found \/ market.status = "active"
                 THEN CheckLoop(rows, Tail(pending), Tail(api), t)
             ELSE IF market.status = "resolved"
                 THEN LET won == market.winning_outcome = bet.outcome IN
                      CheckLoop(UpdateResolved(rows, bet.market_id,
                                               IF won THEN "won" ELSE "lost",
                                               ResolutionPnl(won, bet.amount_near), t),
                                Tail(pending), Tail(api), t)
             ELSE IF market.status = "voided"
                 THEN CheckLoop(UpdateResolved(rows, bet.market_id, "voided", Zero, t),
                                Tail(pending), Tail(api), t)
             ELSE CheckLoop(rows, Tail(pending), Tail(api), t)

checkResolutions(api) ==
    /\ Len(api) = Len(getPendingBets(bets))
    /\ bets' = CheckLoop(bets, getPendingBets(bets), api, now)
    /\ lastCall' = [NoCall EXCEPT !.op = "checkResolutions", !.answers = api]
    /\ UNCHANGED <<now, valVars, researchVars, orchVars>>

Tick ==
    /\ now < MaxTime
    /\ now' = now + 1
    /\ lastCall' = NoCall
    /\ UNCHANGED <<bets, valVars, researchVars, orchVars>>

YoctoPerUnit == 10      \* stands for the 1e24 of "/ 1e24": chain amounts are
                        \* whole multiples of it, one per half NEAR

\* Number(x) / 1e24
FromYocto(x) == x \div YoctoPerUnit

ChainBet(m, o, amt, ts) ==
    [marketId |-> m, outcome |-> o, amount |-> amt, timestamp |-> ts]

Market(id, st, ro, created, total, pools) ==
    [id |-> id, status |-> st, resolvedOutcome |-> ro, createdAt |-> created,
     totalPool |-> total, outcomePools |-> pools]

\* marketsById[id], built by "for (const m of markets) marketsById[m.id] = m"
KnownMarket(mkts, id) == \E i \in DOMAIN mkts : mkts[i].id = id
MarketById(mkts, id) ==
    LET last == CHOOSE i \in DOMAIN mkts :
                    /\ mkts[i].id = id
                    /\ \A j \in DOMAIN mkts : mkts[j].id = id => j <= i
    IN  mkts[last]

\* if (!market) continue; if (Number(bet.timestamp) < Number(market.createdAt)) continue
QualifiesIfListed(bet, mkts) == KnownMarket(mkts, bet.marketId)
Qualifies(bet, mkts) ==
    /\ KnownMarket(mkts, bet.marketId)
    /\ ~(bet.timestamp < MarketById(mkts, bet.marketId).createdAt)

\* pnl = winPool > 0 ? (amountNear * totalPool / winPool) - amountNear : 0
WinPnlFlat(amountNear, totalPool, winPool) == Rat(3 * amountNear, 2)
WinPnl(amountNear, totalPool, winPool) ==
    IF winPool > 0
        THEN Rat(amountNear * totalPool - amountNear * winPool, winPool)
        ELSE Zero

\* The row syncFromChain builds for one qualifying chain bet.
SyncRow(bet, market, t) ==
    LET amountNear == FromYocto(bet.amount) IN
    IF market.status = "resolved" THEN
        IF market.resolvedOutcome = bet.outcome
            THEN Row(bet.marketId, bet.outcome, amountNear, "won",
                     WinPnl(amountNear, FromYocto(market.totalPool),
                            FromYocto(market.outcomePools[bet.outcome + 1])),
                     t)
            ELSE Row(bet.marketId, bet.outcome, amountNear, "lost",
                     Rat(-amountNear, 1), t)
    ELSE IF market.status = "voided"
        THEN Row(bet.marketId, bet.outcome, amountNear, "voided", Zero, t)
    ELSE Row(bet.marketId, bet.outcome, amountNear, "pending", Zero, NoTime)

\* The loop inside the transaction: acc = [rows, synced, threw].  failAt = k > 0
\* makes the k-th insert.run throw (a storage error); the loop stops there.
RECURSIVE SyncLoop(_, _, _, _, _)
SyncLoop(chain, mkts, failAt, t, acc) ==
    IF chain = <<>> THEN acc
    ELSE LET bet == Head(chain) IN
         IF ~Qualifies(bet, mkts) THEN SyncLoop(Tail(chain), mkts, failAt, t, acc)
         ELSE IF acc.synced + 1 = failAt THEN [acc EXCEPT !.threw = TRUE]
         ELSE SyncLoop(Tail(chain), mkts, failAt, t,
                       [acc EXCEPT
                           !.rows = Append(acc.rows,
                                           SyncRow(bet, MarketById(mkts, bet.marketId), t)),
                           !.synced = acc.synced + 1])

\* db.transaction(fn)(): the rows fn wrote are kept when fn returns and rolled
\* back when it throws
NoRollback(rowsBefore, r) == r.rows
Transaction(rowsBefore, r) == IF r.threw THEN rowsBefore ELSE r.rows

\* if (existing > 0) return 0
GuardAlwaysOpen(rows) == TRUE
LedgerEmpty(rows) == Len(rows) = 0

RECURSIVE CountQualifying(_, _)
CountQualifying(chain, mkts) ==
    IF chain = <<>> THEN 0
    ELSE (IF Qualifies(Head(chain), mkts) THEN 1 ELSE 0)
            + CountQualifying(Tail(chain), mkts)

syncFromChain(chain, mkts, failAt) ==
    LET call == [NoCall EXCEPT !.op = "syncFromChain",
                               !.offered = CountQualifying(chain, mkts)]
    IN
    /\ UNCHANGED <<now, valVars, researchVars, orchVars>>
    /\ IF chain = <<>> \/ ~LedgerEmpty(bets)
           THEN /\ bets' = bets
                /\ lastCall' = call
           ELSE LET r == SyncLoop(chain, mkts, failAt, now,
                                  [rows |-> bets, synced |-> 0, threw |-> FALSE])
                    rows == Transaction(bets, r)
                IN  /\ Len(r.rows) <= MaxBets
                    /\ bets' = rows
                    /\ lastCall' =
                         [call EXCEPT !.threw = r.threw,
                                      !.inserted = r.synced,
                                      !.ret = IF r.threw THEN 0 ELSE r.synced,
                                      !.chain = IF Len(rows) > 0 THEN chain ELSE <<>>,
                                      !.mkts = IF Len(rows) > 0 THEN mkts ELSE <<>>]


---------------------------------------------------------------------------
(* Research Cache: the research table of shared-research.js *)

MaxResearch    == 2     \* rows the table may hold
MaxClock       == 10    \* the clock runs from 1 to MaxClock ticks
MaxTtl         == 2     \* maxAgeMinutes is drawn from 1..MaxTtl
TicksPerMinute == 4     \* the clock is read TicksPerMinute times a minute
                        \* (datetime() itself resolves seconds: 60 a minute)

NoFresh == [called |-> FALSE, marketId |-> 0, ttl |-> 0, fresh |-> FALSE]

\* INSERT INTO research (market_id, ...): created_at defaults to datetime('now')
InsertResearch(rows, m, t) == Append(rows, [market_id |-> m, created_at |-> t])

\* datetime(created_at) > datetime('now', -maxAgeMinutes || ' minutes')
YoungerOrAtLimit(created, t, maxAgeMinutes) ==
    created >= t - maxAgeMinutes * TicksPerMinute
Younger(created, t, maxAgeMinutes) ==
    created > t - maxAgeMinutes * TicksPerMinute

\* SELECT 1 FROM research WHERE market_id = ? AND <younger> LIMIT 1;  return !!row
RecentRow(rows, m, t, maxAgeMinutes) ==
    \E i \in DOMAIN rows :
        rows[i].market_id = m /\ Younger(rows[i].created_at, t, maxAgeMinutes)

saveResearch(m) ==
    /\ Len(research) < MaxResearch
    /\ research' = InsertResearch(research, m, rnow)
    /\ lastFresh' = NoFresh
    /\ UNCHANGED <<rnow, scan, agentScan, valVars, ledgerVars, orchVars>>

hasRecentResearch(m, maxAgeMinutes) ==
    /\ lastFresh' = [called |-> TRUE, marketId |-> m, ttl |-> maxAgeMinutes,
                     fresh |-> RecentRow(research, m, rnow, maxAgeMinutes)]
    /\ UNCHANGED <<research, rnow, scan, agentScan, valVars, ledgerVars, orchVars>>

\* SELECT market_id, MAX(created_at) as max_date FROM research GROUP BY market_id
ResearchedMarkets(rows) == {rows[i].market_id : i \in DOMAIN rows}

MaxDate(rows, m) ==
    LET dates == {rows[i].created_at : i \in {j \in DOMAIN rows : rows[j].market_id = m}}
    IN  CHOOSE d \in dates : \A e \in dates : e <= d

\* the rows r1 the INNER JOIN keeps: ON r1.market_id = r2.market_id AND
\* r1.created_at = r2.max_date
JoinEveryRow(rows) == DOMAIN rows
JoinRows(rows) ==
    {i \in DOMAIN rows : rows[i].created_at = MaxDate(rows, rows[i].market_id)}

\* getAllResearch(): result[row.market_id] = {...} for every row of the join,
\* a later row replacing an earlier one of the same market.  ORDER BY
\* r1.created_at DESC leaves the order of rows of one timestamp open, so
\* the result is one of these: market id -> the id of the row it is built from.
getAllResearch(rows) ==
    {f \in [ResearchedMarkets(rows) -> DOMAIN rows] :
        \A m \in ResearchedMarkets(rows) :
            f[m] \in JoinRows(rows) /\ rows[f[m]].market_id = m}

ResearchTick ==
    /\ rnow < MaxClock
    /\ rnow' = rnow + 1
    /\ lastFresh' = NoFresh
    /\ UNCHANGED <<research, scan, agentScan, valVars, ledgerVars, orchVars>>

\* ---- doResearch(sharkAgent, markets.slice(0, 8)), one action for each
\* stretch of it between two awaits

MaxScans == 2           \* research steps (one a cycle) that are followed

ResearchTtl == 30       \* hasRecentResearch(m.id, 30), in minutes
ResearchCap == 8        \* markets.slice(0, 8)

\* an entry of the snapshot: its id, and whether it has a question or a
\* description to ask the oracle about
Opportunity(id, q) == [id |-> id, question |-> q]

\* markets.slice(0, 8)
WholeSnapshot(mkts) == mkts
Slice(mkts) ==
    SubSeq(mkts, 1, IF Len(mkts) < ResearchCap THEN Len(mkts) ELSE ResearchCap)

\* shark: some agent has config.webSearch;  mkts: the markets doResearch was
\* given;  i: the market its loop has reached;  count: the research steps so
\* far;  calls: the oracle calls of this step;  paced: the sleep of 2000 ms
\* has run since the last oracle call of this step;  wrote: the ids of the
\* markets this step has saved a record for, in order
NoScan ==
    [shark |-> FALSE, pc |-> "idle", mkts |-> <<>>, i |-> 1, count |-> 0,
     calls |-> 0, paced |-> FALSE, wrote |-> <<>>]

\* step 3 of cycle(): const sharkAgent = this.agents.find(a => a.config.webSearch);
\* if (sharkAgent) await this.doResearch(sharkAgent, markets.slice(0, 8)).
\* since is the time that went by since the step before, snapshot what
\* getMarkets gave this cycle.
DoResearchStart(since, snapshot) ==
    /\ scan.pc = "idle"
    /\ scan.count < MaxScans
    /\ rnow' = rnow + since
    /\ scan' = IF scan.shark
                 THEN [scan EXCEPT !.pc = "check", !.mkts = Slice(snapshot), !.i = 1,
                                   !.count = @ + 1, !.calls = 0, !.paced = FALSE,
                                   !.wrote = <<>>]
                 ELSE [scan EXCEPT !.count = @ + 1, !.mkts = <<>>, !.calls = 0,
                                   !.paced = FALSE, !.wrote = <<>>]
    /\ lastFresh' = NoFresh
    /\ UNCHANGED <<research, agentScan, valVars, ledgerVars, orchVars>>

\* the head of the loop: if (hasRecentResearch(m.id, 30)) continue;
\* if (!question) continue;  the loop is left after the last market, and by
\* an error of hasRecentResearch, which no try encloses
DoResearchCheck ==
    /\ scan.pc = "check"
    /\ IF scan.i > Len(scan.mkts)
         THEN /\ scan' = [scan EXCEPT !.pc = "idle", !.i = 1]
              /\ lastFresh' = NoFresh
         ELSE \E storeOk \in BOOLEAN :
              LET m == scan.mkts[scan.i]
                  fresh == RecentRow(research, m.id, rnow, ResearchTtl)
              IN  IF ~storeOk
                    THEN /\ scan' = [scan EXCEPT !.pc = "idle", !.i = 1]
                         /\ lastFresh' = NoFresh
                    ELSE /\ lastFresh' = [called |-> TRUE, marketId |-> m.id,
                                          ttl |-> ResearchTtl, fresh |-> fresh]
                         /\ scan' = IF fresh \/ ~m.question
                                      THEN [scan EXCEPT !.i = @ + 1]
                                      ELSE [scan EXCEPT !.pc = "call"]
    /\ UNCHANGED <<research, rnow, agentScan, valVars, ledgerVars, orchVars>>

\* the try: await callLLMJson(...), saveResearch(m.id, ...), pushEvent, up to
\* the await of the sleep; took is the time the oracle took to answer.  An
\* error of the oracle or of the store goes to the catch, which logs it, and
\* the loop turns to the next market.
DoResearchCall(took) ==
    /\ scan.pc = "call"
    /\ rnow' = rnow + took
    /\ \E llmOk \in BOOLEAN, saveOk \in BOOLEAN :
          LET m == scan.mkts[scan.i] IN
          IF llmOk /\ saveOk
            THEN /\ research' = InsertResearch(research, m.id, rnow')
                 /\ scan' = [scan EXCEPT !.pc = "pace", !.calls = @ + 1,
                                         !.paced = FALSE,
                                         !.wrote = Append(@, m.id)]
            ELSE /\ research' = research
                 /\ scan' = [scan EXCEPT !.pc = "check", !.i = @ + 1,
                                         !.calls = @ + 1, !.paced = FALSE]
    /\ UNCHANGED <<lastFresh, agentScan, valVars, ledgerVars, orchVars>>

\* await sleep(2000), the last statement of the try, is over
DoResearchPace ==
    /\ scan.pc = "pace"
    /\ scan' = [scan EXCEPT !.pc = "check", !.i = @ + 1, !.paced = TRUE]
    /\ UNCHANGED <<research, rnow, lastFresh, agentScan, valVars, ledgerVars, orchVars>>

\* ---- Agent.doResearch of the stand-alone agents: every agent that runs
\* its own cycle has this loop, and all of them share the research table

Refreshers == {"r1", "r2"}

\* pc: "idle" between two markets, "call" while callLLMJson is awaited;
\* m: the market the loop is at;  rejected: its INSERT was turned down
NoAgentScan == [r \in Refreshers |-> [pc |-> "idle", m |-> 0, rejected |-> FALSE]]

\* CREATE TABLE research (id INTEGER PRIMARY KEY AUTOINCREMENT, market_id
\* INTEGER NOT NULL, ...): no UNIQUE constraint stands in the way of a second
\* record of a market
InsertUnique(rows, m) == \A i \in DOMAIN rows : rows[i].market_id # m
InsertAllowed(rows, m) == TRUE

\* if (hasRecentResearch(m.id, 30)) continue; ... up to the await of callLLMJson
AgentResearchCheck(r, m) ==
    /\ agentScan[r].pc = "idle"
    \* the table is bounded: a market is looked at only while there is room
    /\ Len(research) + Cardinality({q \in Refreshers : agentScan[q].pc = "call"})
          < MaxResearch
    /\ lastFresh' = [called |-> TRUE, marketId |-> m, ttl |-> ResearchTtl,
                     fresh |-> RecentRow(research, m, rnow, ResearchTtl)]
    /\ agentScan' = IF lastFresh'.fresh
                      THEN agentScan
                      ELSE [agentScan EXCEPT ![r].pc = "call", ![r].m = m]
    /\ UNCHANGED <<research, rnow, scan, valVars, ledgerVars, orchVars>>

\* callLLMJson has answered or raised; saveResearch(m.id, ...) follows at once
AgentResearchCall(r) ==
    /\ agentScan[r].pc = "call"
    /\ \E llmOk \in BOOLEAN :
          LET m == agentScan[r].m IN
          IF ~llmOk
            THEN /\ research' = research
                 /\ agentScan' = [agentScan EXCEPT ![r].pc = "idle"]
          ELSE IF InsertAllowed(research, m)
            THEN /\ research' = InsertResearch(research, m, rnow)
                 /\ agentScan' = [agentScan EXCEPT ![r].pc = "idle"]
            ELSE /\ research' = research
                 /\ agentScan' = [agentScan EXCEPT ![r].pc = "idle",
                                                   ![r].rejected = TRUE]
    /\ lastFresh' = NoFresh
    /\ UNCHANGED <<rnow, scan, valVars, ledgerVars, orchVars>>

---------------------------------------------------------------------------
(* Orchestrator: start(), cycle(), pushAllStats(), stop() and the SIGINT   *)
(* handler of index.js.  An action is the code between two awaits; a loop  *)
(* over the agents takes one action per agent, the dispatch loop one per   *)
(* action.  The snapshot holds the markets of `markets`; the chats table   *)
(* and the balances cache, which no step reads back, are left out.         *)

MaxCycles    == 2       \* cycles start() is followed through
MaxAgentBets == 1       \* rows the bets table of one agent may hold

agents == <<"A", "B">>                      \* this.agents, in order
AgentNames == {agents[i] : i \in DOMAIN agents}

\* agent.config: A is the agent with webSearch, B leaves maxBetNear unset
AgentConfig ==
    [a \in AgentNames |->
        IF a = "A" THEN [maxBetNear |-> 2, webSearch |-> TRUE]
                   ELSE [maxBetNear |-> 0, webSearch |-> FALSE]]

\* what the contract answers to get_balance: 4 NEAR
ContractBalances == {8}

\* const sharkAgent = this.agents.find(a => a.config.webSearch)
HasSharkAgent == \E a \in AgentNames : AgentConfig[a].webSearch

\* The record of the cycle in progress:
\*   snapshot      "", "failed", "empty" or "some": what getMarkets gave
\*   threw, cause  cycle() threw, and the call that raised
\*   contexts      the contexts collected so far
\*   oracleCalls   calls of thinkAll;  researchCalls  calls of the research LLM
\*   oracleFailed  thinkAll raised
\*   handed        per agent, the actions given to executeAction, in order
\*   placed, recorded   wallet.placeBet calls that went through, and the
\*                 memory.recordBet calls that followed and went through
\*   resolved      <<agent, row id>> of the rows checkResolutions made terminal
\*   statsRan      pushAllStats ran;  published  the agents whose stats it
\*                 pushed;  unreadable  the agents whose ledger failed it
\*   faulty        a collaborator or a store failed on its own account
\*   stopped       stop() was called while the cycle was in progress
\*   prevThrew     the cycle before this one threw
\*   silent        an error was caught by a catch that writes no log line
\*                 and pushes no event
\*   missed        the context collection of some agent raised;  prevMissed
\*                 the same of the cycle before this one
\*   attempts      calls of wallet.placeBet;  betEvents  pushEvent("bet") calls
\*   order         the agents executeAction was called on, call by call
\*   noBalance     the agents in agentContexts whose balance query raised
NoTrace ==
    [snapshot |-> "", threw |-> FALSE, cause |-> "", contexts |-> 0,
     oracleCalls |-> 0, oracleFailed |-> FALSE, researchCalls |-> 0, handed |-> [a \in AgentNames |-> <<>>],
     placed |-> 0, recorded |-> 0, resolved |-> {}, statsRan |-> FALSE,
     published |-> {}, unreadable |-> {}, faulty |-> FALSE, stopped |-> FALSE,
     prevThrew |-> FALSE, silent |-> FALSE, missed |-> FALSE,
     prevMissed |-> FALSE, attempts |-> 0, betEvents |-> 0, order |-> <<>>,
     noBalance |-> {}]

\* The catch blocks of a cycle that swallow an error, and whether the block
\* writes a log line: catch { chatByMarket[m.id] = []; }, catch { /* no odds */ }
\* and the catch of the lookup in checkResolutions are empty.
CatchLogs(site) == site \in {"research", "context", "think", "dispatch"}

\* the record after an error at site was swallowed, if failed
Swallowed(tr, site, failed) ==
    [tr EXCEPT !.faulty = @ \/ failed,
               !.silent = @ \/ (failed /\ ~CatchLogs(site))]

NoActions == [called |-> FALSE, ok |-> FALSE, resp |-> <<>>, out |-> <<>>]

\* the ids of the rows getPendingBets returns
AllIds(rows) == {i \in DOMAIN rows : TRUE}
PendingIds(rows) == {i \in DOMAIN rows : rows[i].result = "pending"}

\* the catch of start(): the error is logged and the loop goes on to sleep
AfterThrowFatal == "exited"
AfterThrow == "sleep"

\* the record of a cycle() that raised out of the call named by cause
Thrown(tr, cause) == [tr EXCEPT !.threw = TRUE, !.cause = cause, !.faulty = TRUE]

\* while (this.running) { ... await sleep(sleepMs) }: the sleep, or the
\* funding at the head of start(), is over and the loop condition is read
Wake ==
    /\ pc \in {"boot", "sleep"}
    /\ IF running
         THEN /\ cycleCount < MaxCycles
              /\ cycleCount' = cycleCount + 1
              /\ pc' = "markets"
              /\ trace' = [NoTrace EXCEPT !.prevThrew = trace.threw,
                                           !.prevMissed = trace.missed]
              /\ agentContexts' = <<>>
              /\ allActions' = NoActions
              \* research written more than 30 minutes ago has aged out
              /\ \E keep \in SUBSET freshMarkets : freshMarkets' = keep
         ELSE \* start() returns
              /\ pc' = "exited"
              /\ trace' = NoTrace
              /\ UNCHANGED <<cycleCount, agentContexts, allActions, freshMarkets>>
    /\ idx' = 1
    /\ jdx' = 1
    /\ UNCHANGED <<running, memOpen, agentBets>>
    /\ UNCHANGED <<valVars, ledgerVars, researchVars>>

\* if (markets.length === 0) { await this.pushAllStats(); return; }
EmptySnapshotSleeps == "sleep"
EmptySnapshotNext == "stats"

\* const markets = await this.api.getMarkets({ status: "active" })
GetMarkets ==
    /\ pc = "markets"
    /\ \E ans \in {"failed", "empty", "some"} :
          IF ans = "failed"
            THEN /\ pc' = AfterThrow
                 /\ trace' = Thrown([trace EXCEPT !.snapshot = ans], "getMarkets")
            ELSE /\ pc' = IF ans = "empty" THEN EmptySnapshotNext ELSE "fetch"
                 /\ trace' = [trace EXCEPT !.snapshot = ans]
    /\ UNCHANGED <<running, cycleCount, idx, jdx, memOpen, agentBets,
                   agentContexts, allActions, freshMarkets>>
    /\ UNCHANGED <<valVars, ledgerVars, researchVars>>

\* step 2: getChat and getOdds for every market of the snapshot, each in its
\* own try/catch
FetchChatAndOdds ==
    /\ pc = "fetch"
    /\ \E chatOk \in BOOLEAN, oddsOk \in BOOLEAN :
          trace' = Swallowed(Swallowed(trace, "chat", ~chatOk), "odds", ~oddsOk)
    /\ pc' = IF HasSharkAgent THEN "research" ELSE "allResearch"
    /\ UNCHANGED <<running, cycleCount, idx, jdx, memOpen, agentBets,
                   agentContexts, allActions, freshMarkets>>
    /\ UNCHANGED <<valVars, ledgerVars, researchVars>>

\* hasRecentResearch(m.id, 30) as doResearch calls it: getDb() or the query
\* raises when the store cannot be opened or read
FreshAnswer(storeOk, m, fresh) ==
    [threw |-> ~storeOk, fresh |-> storeOk /\ m \in fresh]

\* step 3: doResearch(sharkAgent, markets.slice(0, 8))
DoResearch ==
    /\ pc = "research"
    /\ \E storeOk \in BOOLEAN, llmOk \in BOOLEAN, saveOk \in BOOLEAN :
          LET m == ActiveMarket
              ans == FreshAnswer(storeOk, m, freshMarkets)
          IN  IF ans.threw
                THEN /\ pc' = AfterThrow
                     /\ trace' = Thrown(trace, "hasRecentResearch")
                     /\ UNCHANGED freshMarkets
              ELSE IF ans.fresh
                THEN /\ pc' = "allResearch"
                     /\ UNCHANGED <<trace, freshMarkets>>
              ELSE /\ pc' = "allResearch"
                   /\ trace' = Swallowed([trace EXCEPT !.researchCalls = @ + 1],
                                         "research", ~llmOk \/ ~saveOk)
                   /\ freshMarkets' = IF llmOk /\ saveOk
                                        THEN freshMarkets \cup {m}
                                        ELSE freshMarkets
    /\ UNCHANGED <<running, cycleCount, idx, jdx, memOpen, agentBets,
                   agentContexts, allActions>>
    /\ UNCHANGED <<valVars, ledgerVars, researchVars>>

\* const researchData = getAllResearch()
GetAllResearch ==
    /\ pc = "allResearch"
    /\ \E storeOk \in BOOLEAN :
          IF storeOk
            THEN pc' = "resolve" /\ UNCHANGED trace
            ELSE pc' = AfterThrow /\ trace' = Thrown(trace, "getAllResearch")
    /\ idx' = 1
    /\ UNCHANGED <<running, cycleCount, jdx, memOpen, agentBets,
                   agentContexts, allActions, freshMarkets>>
    /\ UNCHANGED <<valVars, ledgerVars, researchVars>>

\* this.memory of agent a: Agent.init opens data/<name of a>/memory.db, a
\* file of its own for every agent
MemoryOfFirst(a) == agents[1]
MemoryOf(a) == a

\* what api.getMarket answers in a cycle: a throw, a market still active, a
\* market resolved either way, a voided market
CycleApiAnswers ==
    {x \in ApiAnswers : ~x.ok \/ (x.found /\ x.status \in {"active", "resolved", "voided"})}

\* step 4, for the agent at idx: agent.checkResolutions().  Its first
\* statement, memory.getPendingBets(), stands outside the try of the loop.
CheckResolutionsOf ==
    /\ pc = "resolve"
    /\ idx <= Len(agents)
    /\ LET a == agents[idx] IN
       \E readOk \in BOOLEAN, api \in SeqsUpTo(CycleApiAnswers, MaxAgentBets) :
          IF ~(memOpen[a] /\ readOk)
            THEN /\ pc' = AfterThrow
                 /\ trace' = [Thrown(trace, "getPendingBets") EXCEPT
                                 !.faulty = trace.faulty \/ ~readOk]
                 /\ idx' = 1
                 /\ UNCHANGED agentBets
            ELSE LET rows  == agentBets[MemoryOf(a)]
                     after == CheckLoop(rows, getPendingBets(rows), api, now)
                 IN  /\ Len(api) = Len(getPendingBets(rows))
                     /\ agentBets' = [agentBets EXCEPT ![MemoryOf(a)] = after]
                     /\ trace' = Swallowed(
                           [trace EXCEPT
                              !.resolved = @ \cup {<<a, i>> : i \in PendingIds(rows) \ PendingIds(after)},
                              !.faulty = @ \/ \E k \in DOMAIN api : ~api[k].ok],
                           "resolve", \E k \in DOMAIN api : ~api[k].ok)
                     /\ idx' = IF idx = Len(agents) THEN 1 ELSE idx + 1
                     /\ pc' = IF idx = Len(agents) THEN "balances" ELSE "resolve"
    /\ UNCHANGED <<running, cycleCount, jdx, memOpen, agentContexts, allActions,
                   freshMarkets>>
    /\ UNCHANGED <<valVars, ledgerVars, researchVars>>

\* step 5: monitorBalances(); every failure in it is caught per agent
MonitorBalances ==
    /\ pc = "balances"
    /\ pc' = "context"
    /\ idx' = 1
    /\ UNCHANGED <<running, cycleCount, jdx, memOpen, agentBets, agentContexts,
                   allActions, freshMarkets, trace>>
    /\ UNCHANGED <<valVars, ledgerVars, researchVars>>

\* wallet.getContractBalance(): the balance the contract answers with, and
\* 0 when the view call raises (catch { return 0; })
getContractBalanceKept(ok, bal) == bal
getContractBalance(ok, bal) == IF ok THEN bal ELSE 0

\* const myBets = agent.memory.getPendingBets(): the ids of the rows it gives
AllBets(rows) == AllIds(rows)
MyBets(rows) == PendingIds(rows)

\* agentContexts.push({ agent, config, accountId, balance, myBets, stats })
Context(a, bal, rows) ==
    [agent |-> a, config |-> AgentConfig[a], balance |-> bal,
     myBets |-> MyBets(rows)]

\* if (agentContexts.length === 0) { log.error(...); return; }
AfterContexts(ctxs) == IF Len(ctxs) = 0 THEN "sleep" ELSE "think"

\* step 6, for the agent at idx: the balance, the pending bets and the stats,
\* inside one try; an agent whose reads raise gets no context
CollectContext ==
    /\ pc = "context"
    /\ idx <= Len(agents)
    /\ LET a == agents[idx] IN
       \E readOk \in BOOLEAN, balOk \in BOOLEAN, bal \in ContractBalances :
          LET ctxs == IF memOpen[a] /\ readOk
                        THEN Append(agentContexts,
                                    Context(a, getContractBalance(balOk, bal),
                                            agentBets[a]))
                        ELSE agentContexts
          IN  /\ agentContexts' = ctxs
              /\ trace' = Swallowed(
                              [trace EXCEPT !.faulty = @ \/ ~readOk,
                                            !.contexts = Len(ctxs),
                                            !.missed = @ \/ ~(memOpen[a] /\ readOk),
                                            !.noBalance =
                                                IF memOpen[a] /\ readOk /\ ~balOk
                                                  THEN @ \cup {a} ELSE @],
                              "context", ~readOk)
              /\ idx' = IF idx = Len(agents) THEN 1 ELSE idx + 1
              /\ pc' = IF idx = Len(agents) THEN AfterContexts(ctxs) ELSE "context"
    /\ jdx' = 1
    /\ UNCHANGED <<running, cycleCount, memOpen, agentBets, allActions,
                   freshMarkets>>
    /\ UNCHANGED <<valVars, ledgerVars, researchVars>>

\* What the oracle can answer for one agent: no entry, or an entry with a raw
\* action list and a reasoning.
Missing == [present |-> FALSE, actions |-> [arr |-> FALSE, items |-> <<>>], reasoning |-> ""]
Entry(items) == [present |-> TRUE, actions |-> [arr |-> TRUE, items |-> items], reasoning |-> "why"]

OracleLists ==
    {<<>>, <<GoodBet(6), Chat(Num(ActiveMarket), Txt(5))>>,
     <<NullAction, Chat(Num(ActiveMarket), Txt(5))>>}

OracleEntries == {Missing} \cup {Entry(l) : l \in OracleLists}

HasBet(e) == \E i \in DOMAIN e.actions.items : e.actions.items[i].type = "bet"

\* const agentResult = result[name] || {};
\* const rawActions = agentResult.actions || [];
\* allActions[name] = { actions: validateActions(rawActions, markets,
\*                       agentCtx.balance, agentCtx.config), reasoning: ... || "" }
DemuxWithFirstBalance(ctxs, i, resp) ==
    [actions |-> validateActions(resp[ctxs[i].agent].actions, markets,
                                 ctxs[1].balance, ctxs[1].config).out,
     reasoning |-> resp[ctxs[i].agent].reasoning]
Demux(ctxs, i, resp) ==
    [actions |-> validateActions(resp[ctxs[i].agent].actions, markets,
                                 ctxs[i].balance, ctxs[i].config).out,
     reasoning |-> resp[ctxs[i].agent].reasoning]

\* the loop of thinkAll over the contexts: one entry per context, by name
thinkAllForEveryAgent(ctxs, resp) ==
    [a \in AgentNames |->
        IF \E i \in DOMAIN ctxs : ctxs[i].agent = a
          THEN Demux(ctxs, CHOOSE i \in DOMAIN ctxs : ctxs[i].agent = a, resp)
          ELSE [actions |-> <<>>, reasoning |-> ""]]
thinkAll(ctxs, resp) ==
    [a \in {ctxs[i].agent : i \in DOMAIN ctxs} |->
        Demux(ctxs, CHOOSE i \in DOMAIN ctxs : ctxs[i].agent = a, resp)]

\* validateActions is called inside the loop with no try around it: what it
\* raises for one agent leaves thinkAll, and no agent's list is returned
thinkAllThrows(ctxs, resp) ==
    \E i \in DOMAIN ctxs :
        validateActions(resp[ctxs[i].agent].actions, markets,
                        ctxs[i].balance, ctxs[i].config).threw

\* calls of thinkAll the decision round of one cycle makes
CallsPerAgent(ctxs) == Len(ctxs)
CallsForRound(ctxs) == 1

\* catch (err) { log.error(...); await this.pushAllStats(); return; }
OracleFailureSleeps == "sleep"
OracleFailureNext == "stats"

\* the first context, from i on, whose validated list holds an action; the
\* dispatch loop passes by the agents that decided to do nothing
RECURSIVE NextBusy(_, _, _)
NextBusy(ctxs, out, i) ==
    IF i > Len(ctxs) THEN i
    ELSE IF Len(out[ctxs[i].agent].actions) > 0 THEN i
    ELSE NextBusy(ctxs, out, i + 1)

\* step 7: allActions = await thinkAll(apiKey, { agents: agentContexts, ... })
ThinkAll ==
    /\ pc = "think"
    /\ \/ \* the call raises: transport error, or a reply that is no JSON
          /\ pc' = OracleFailureNext
          /\ trace' = Swallowed(
                          [trace EXCEPT !.oracleCalls = @ + CallsForRound(agentContexts),
                                        !.oracleFailed = TRUE],
                          "think", TRUE)
          /\ allActions' = [NoActions EXCEPT !.called = TRUE]
          /\ UNCHANGED idx
       \/ \* the reply is read, and the validation of one agent's list raises
          \E resp \in [AgentNames -> OracleEntries] :
          /\ \A a \in AgentNames : HasBet(resp[a]) => Len(agentBets[a]) < MaxAgentBets
          /\ thinkAllThrows(agentContexts, resp)
          /\ pc' = OracleFailureNext
          /\ trace' = Swallowed(
                          [trace EXCEPT !.oracleCalls = @ + CallsForRound(agentContexts),
                                        !.oracleFailed = TRUE],
                          "think", TRUE)
          /\ allActions' = [NoActions EXCEPT !.called = TRUE, !.resp = resp]
          /\ UNCHANGED idx
       \/ \E resp \in [AgentNames -> OracleEntries] :
          \* the ledgers are bounded: a wager is proposed only where there is room
          /\ \A a \in AgentNames : HasBet(resp[a]) => Len(agentBets[a]) < MaxAgentBets
          /\ ~thinkAllThrows(agentContexts, resp)
          /\ LET out == thinkAll(agentContexts, resp)
                 first == NextBusy(agentContexts, out, 1)
             IN  /\ allActions' = [called |-> TRUE, ok |-> TRUE, resp |-> resp,
                                    out |-> out]
                 /\ idx' = first
                 /\ pc' = IF first > Len(agentContexts) THEN "stats" ELSE "dispatch"
          /\ trace' = [trace EXCEPT !.oracleCalls = @ + CallsForRound(agentContexts)]
    /\ jdx' = 1
    /\ UNCHANGED <<running, cycleCount, memOpen, agentBets, agentContexts,
                   freshMarkets>>
    /\ UNCHANGED <<valVars, ledgerVars, researchVars>>

\* case "bet": await wallet.placeBet(...) is called once; when it raises, the
\* catch of executeAction logs the error and nothing is tried again
PlaceBetCallsWithRetry(sendOk) == IF sendOk THEN 1 ELSE 2
PlaceBetCalls(sendOk) == 1

\* memory.recordBet(...) and dashboard.pushEvent("bet", ...) stand after the
\* await of wallet.placeBet, inside the same try
RecordedAnyway(isBet, sendOk, open, writeOk) == isBet /\ open /\ writeOk
Recorded(isBet, sendOk, open, writeOk) == isBet /\ sendOk /\ open /\ writeOk

\* step 8, one turn of the inner loop: await actx.agent.executeAction(action).
\* A bet is placed through the wallet and then recorded in the ledger; a chat
\* or a reply is sent; whatever raises is caught inside executeAction.
ExecuteAction ==
    /\ pc = "dispatch"
    /\ idx <= Len(agentContexts)
    /\ LET a      == agentContexts[idx].agent
           list   == allActions.out[a].actions
           action == list[jdx]
           last   == jdx = Len(list)
           next   == IF last THEN NextBusy(agentContexts, allActions.out, idx + 1)
                             ELSE idx
       IN  /\ \E sendOk \in BOOLEAN, writeOk \in BOOLEAN :
                LET placed   == action.type = "bet" /\ sendOk
                    recorded == Recorded(action.type = "bet", sendOk, memOpen[a], writeOk)
                IN  /\ agentBets' =
                          IF recorded
                            THEN [agentBets EXCEPT ![MemoryOf(a)] =
                                    InsertBet(@, action.marketId.v, action.outcome.v,
                                              action.amount.v)]
                            ELSE agentBets
                    /\ trace' = Swallowed(
                          [trace EXCEPT
                             !.handed[a] = Append(@, action),
                             !.placed = @ + (IF placed THEN 1 ELSE 0),
                             !.recorded = @ + (IF recorded THEN 1 ELSE 0),
                             !.attempts = @ + (IF action.type = "bet"
                                                 THEN PlaceBetCalls(sendOk) ELSE 0),
                             !.betEvents = @ + (IF recorded THEN 1 ELSE 0),
                             !.order = Append(@, a)],
                          "dispatch", ~sendOk \/ (placed /\ ~writeOk))
           /\ idx' = next
           /\ jdx' = IF last THEN 1 ELSE jdx + 1
           /\ pc' = IF next > Len(agentContexts) THEN "stats" ELSE "dispatch"
    /\ UNCHANGED <<running, cycleCount, memOpen, agentContexts, allActions,
                   freshMarkets>>
    /\ UNCHANGED <<valVars, ledgerVars, researchVars>>

\* pushAllStats(): for every agent, getStats() and pushStats() in one try;
\* cycle() returns after it, and its locals are gone
PushAllStats ==
    /\ pc = "stats"
    /\ \E readOk \in [AgentNames -> BOOLEAN] :
          LET failed == {a \in AgentNames : ~readOk[a]} IN
          trace' = [trace EXCEPT !.statsRan = TRUE,
                                 !.noBalance = {},
                                 !.published = {a \in AgentNames : memOpen[a]} \ failed,
                                 !.unreadable = failed,
                                 !.faulty = @ \/ failed # {}]
    /\ pc' = "sleep"
    /\ agentContexts' = <<>>
    /\ allActions' = NoActions
    /\ idx' = 1
    /\ jdx' = 1
    /\ UNCHANGED <<running, cycleCount, memOpen, agentBets, freshMarkets>>
    /\ UNCHANGED <<valVars, ledgerVars, researchVars>>

InCycle == pc \notin {"boot", "sleep", "exited"}

\* stop(): this.running = false; this.agents.forEach(a => a.stop()), and
\* Agent.stop closes the agent's memory.  The SIGINT handler calls it
\* whenever the signal comes.
Stop ==
    /\ running
    /\ pc # "exited"
    /\ running' = FALSE
    /\ memOpen' = [a \in AgentNames |-> FALSE]
    /\ trace' = [trace EXCEPT !.stopped = @ \/ InCycle]
    /\ UNCHANGED <<cycleCount, pc, idx, jdx, agentBets, agentContexts,
                   allActions, freshMarkets>>
    /\ UNCHANGED <<valVars, ledgerVars, researchVars>>

\* setTimeout(() => process.exit(0), 1000) of the SIGINT handler
ProcessExit ==
    /\ ~running
    /\ pc # "exited"
    /\ pc' = "exited"
    /\ agentContexts' = <<>>
    /\ allActions' = NoActions
    /\ idx' = 1
    /\ jdx' = 1
    /\ trace' = NoTrace
    /\ UNCHANGED <<running, cycleCount, memOpen, agentBets, freshMarkets>>
    /\ UNCHANGED <<valVars, ledgerVars, researchVars>>

---------------------------------------------------------------------------
(* Specifications *)

\* The elements the budget claims are about.
BudgetActions ==
    {GoodBet(n) : n \in 1..MaxAmount}
        \cup {Bet(Num(ActiveMarket), Num(0), Inf),
              Bet(Num(ActiveMarket), Num(0), Txt(3)),
              Chat(Num(ActiveMarket), Txt(5))}

RawLists(S) == {[arr |-> TRUE, items |-> s] : s \in SeqsUpTo(S, MaxActions)}

Configs == {[maxBetNear |-> m] : m \in {0, 2, 4}}

ValIdle ==
    /\ rawActions = [arr |-> FALSE, items |-> <<>>]
    /\ balance = 0
    /\ config = [maxBetNear |-> 0]
    /\ vpc = "idle"
    /\ validated = NoResult

LedgerIdle ==
    /\ bets = <<>>
    /\ now = 1
    /\ lastCall = NoCall

ResearchIdle ==
    /\ research = <<>>
    /\ rnow = 1
    /\ lastFresh = NoFresh
    /\ scan = NoScan
    /\ agentScan = NoAgentScan

OrchIdle ==
    /\ running = FALSE
    /\ cycleCount = 0
    /\ pc = "exited"
    /\ idx = 1
    /\ jdx = 1
    /\ memOpen = [a \in AgentNames |-> FALSE]
    /\ agentBets = [a \in AgentNames |-> <<>>]
    /\ agentContexts = <<>>
    /\ allActions = NoActions
    /\ freshMarkets = {}
    /\ trace = NoTrace

InitValidate ==
    /\ rawActions \in RawLists(BudgetActions) \cup {[arr |-> FALSE, items |-> <<>>]}
    /\ balance \in 0..MaxBalance
    /\ config \in Configs
    /\ vpc = "ready"
    /\ validated = NoResult
    /\ LedgerIdle
    /\ ResearchIdle
    /\ OrchIdle

\* thinkAll's call for one agent: validateActions(rawActions, markets, balance, config)
Validate ==
    /\ vpc = "ready"
    /\ validated' = validateActions(rawActions, markets, balance, config)
    /\ vpc' = "done"
    /\ UNCHANGED <<rawActions, balance, config, ledgerVars, researchVars, orchVars>>

NextValidate == Validate

\* The elements the claims on the shape of the list are about: entries that
\* are null, have no type or an unknown one; wagers with textual fields, with
\* an infinite or unreadable amount or outcome, on a market the snapshot does
\* not hold; messages that are empty, no text, too long, or of exactly the
\* greatest length.
MaxShapeActions == 2

ShapeActions ==
    {NullAction, NoTypeAction, SkipAction,
     GoodBet(2),
     Bet(Str(ActiveMarket), Str(0), Str(3)),
     Bet(Num(ActiveMarket), Num(0), Inf),
     Bet(Num(ActiveMarket), Inf, Num(1)),
     Bet(Num(ActiveMarket), Num(0), NegInf),
     Bet(Num(ActiveMarket), NegInf, Num(1)),
     Bet(Num(ActiveMarket), Num(0), Txt(3)),
     Bet(Num(ActiveMarket + 1), Num(0), Num(1)),
     Chat(Num(ActiveMarket), Txt(5)),
     Chat(Str(ActiveMarket), Txt(MessageLimit + 1)),
     Chat(Num(ActiveMarket), Txt(0)),
     Chat(Num(ActiveMarket), Num(7)),
     Chat(Num(ActiveMarket + 1), Txt(5)),
     Reply(Num(ActiveMarket), Txt(MessageLimit))}

InitShape ==
    /\ rawActions \in {[arr |-> TRUE, items |-> l] :
                          l \in SeqsUpTo(ShapeActions, MaxShapeActions)}
    /\ balance \in 0..MaxBalance
    /\ config \in Configs
    /\ vpc = "ready"
    /\ validated = NoResult
    /\ LedgerIdle
    /\ ResearchIdle
    /\ OrchIdle

SpecShape == InitShape /\ [][NextValidate]_vars

SpecValidate == InitValidate /\ [][NextValidate]_vars

\* ---- the inputs the ledger calls are drawn from

MarketCreatedAt == 2

\* pools of 100 and 40 NEAR (the worked example), a winning pool of 0, and
\* pools whose quotient is no whole number
PoolFixtures ==
    {[total |-> 2000, pools |-> <<800, 1200>>],
     [total |-> 30, pools |-> <<0, 30>>],
     [total |-> 1000, pools |-> <<900, 100>>]}

\* a wager of 10 NEAR on outcome 0 and one of half a NEAR on outcome 1, both
\* placed on market 1 once it existed; one that predates market 1 (an orphan
\* of an earlier contract); one on a market the list does not hold
ChainBets ==
    {ChainBet(1, 0, 200, MarketCreatedAt),
     ChainBet(1, 1, 10, MarketCreatedAt),
     ChainBet(1, 0, 10, MarketCreatedAt - 1),
     ChainBet(2, 0, 10, MarketCreatedAt)}

\* which insert.run of a call throws: none, the first, the second
FailPoints == {0, 1, 2}

\* the market list given to syncFromChain knows market 1 only
SyncMarkets ==
    {<<Market(1, "active", 0, MarketCreatedAt, 30, <<0, 30>>)>>,
     <<Market(1, "voided", 0, MarketCreatedAt, 30, <<0, 30>>)>>}
    \cup {<<Market(1, "resolved", 0, MarketCreatedAt, f.total, f.pools)>> :
            f \in PoolFixtures}

ResolvePnls == {Zero, Rat(1, 1)}

InitLedger ==
    /\ LedgerIdle
    /\ ValIdle
    /\ ResearchIdle
    /\ OrchIdle

NextLedger ==
    \/ \E m \in MarketIds, o \in Outcomes, amt \in 1..MaxWager : recordBet(m, o, amt)
    \/ \E m \in MarketIds, res \in {"won", "lost", "voided"}, pnl \in ResolvePnls :
          resolveBet(m, res, pnl)
    \/ \E api \in SeqsUpTo(ApiAnswers, MaxBets) : checkResolutions(api)
    \/ Tick

\* the reconciliation of a ledger that recordBet may have written to before
\* (wagers on outcome 0 of market 1) and may write to afterwards
NextSync ==
    \/ \E chain \in SeqsUpTo(ChainBets, MaxChain), mkts \in SyncMarkets,
          failAt \in FailPoints : syncFromChain(chain, mkts, failAt)
    \/ \E amt \in 1..MaxWager : recordBet(1, 0, amt)
    \/ Tick

\* the ledger as recordBet, resolveBet and a reconciliation write it, and
\* getStats reads it; a reconciliation of a ledger that holds rows writes
\* nothing and is left out, and the wagers recorded are all on outcome 0,
\* which no statistic reads
NextStats ==
    \/ \E m \in MarketIds, amt \in 1..MaxWager : recordBet(m, 0, amt)
    \/ \E m \in MarketIds, res \in {"won", "lost", "voided"}, pnl \in ResolvePnls :
          resolveBet(m, res, pnl)
    \/ /\ bets = <<>>
       /\ \E chain \in SeqsUpTo(ChainBets, MaxChain), mkts \in SyncMarkets :
             syncFromChain(chain, mkts, 0)
    \/ getStats

SpecStats == InitLedger /\ [][NextStats]_vars

SpecLedger == InitLedger /\ [][NextLedger]_vars

\* the ledger as the agent writes it: a reconciliation, which writes to an
\* empty table only, recordBet from executeAction (wagers of half a NEAR on
\* outcome 0) and resolveBet from checkResolutions only
NextAgentLedger ==
    \/ /\ bets = <<>>
       /\ \E chain \in SeqsUpTo(ChainBets, MaxChain), mkts \in SyncMarkets,
             failAt \in FailPoints : syncFromChain(chain, mkts, failAt)
    \/ \E m \in MarketIds : recordBet(m, 0, 1)
    \/ \E api \in [1..Len(getPendingBets(bets)) -> ApiAnswers] : checkResolutions(api)
    \/ Tick

SpecAgentLedger == InitLedger /\ [][NextAgentLedger]_vars

SpecSync == InitLedger /\ [][NextSync]_vars

InitResearch ==
    /\ ResearchIdle
    /\ ValIdle
    /\ LedgerIdle
    /\ OrchIdle

NextResearch ==
    \/ \E m \in MarketIds : saveResearch(m)
    \/ \E m \in MarketIds, ttl \in 1..MaxTtl : hasRecentResearch(m, ttl)
    \/ ResearchTick

\* ---- the inputs of the research step

\* a snapshot of nine markets of which the first, the second and the ninth
\* have a question; one of a single market; one that lists a market twice
Snapshots ==
    {[k \in 1..(ResearchCap + 1) |-> Opportunity(k, k \in {1, 2, ResearchCap + 1})],
     <<Opportunity(1, TRUE)>>,
     <<Opportunity(2, TRUE), Opportunity(2, TRUE)>>}

\* the time from one research step to the next: a tick short of the 30
\* minutes, the 30 minutes, and more
StepGaps ==
    {ResearchTtl * TicksPerMinute - 1, ResearchTtl * TicksPerMinute,
     ResearchTtl * TicksPerMinute + 1}

\* the time the oracle takes to answer
CallTimes == {0, 1}

InitRefresh ==
    /\ research = <<>>
    /\ rnow = 1
    /\ lastFresh = NoFresh
    /\ scan \in {[NoScan EXCEPT !.shark = b] : b \in BOOLEAN}
    /\ agentScan = NoAgentScan
    /\ ValIdle
    /\ LedgerIdle
    /\ OrchIdle

NextRefresh ==
    \/ \E since \in StepGaps, snapshot \in Snapshots : DoResearchStart(since, snapshot)
    \/ DoResearchCheck
    \/ \E took \in CallTimes : DoResearchCall(took)
    \/ DoResearchPace

SpecRefresh == InitRefresh /\ [][NextRefresh]_vars

\* two stand-alone agents refresh research at the same time
NextRace ==
    \/ \E r \in Refreshers, m \in MarketIds : AgentResearchCheck(r, m)
    \/ \E r \in Refreshers : AgentResearchCall(r)
    \/ ResearchTick

SpecRace == InitResearch /\ [][NextRace]_vars

SpecResearch == InitResearch /\ [][NextResearch]_vars

\* start() has set running and is funding the wallets; every agent has been
\* initialised, its ledger open and empty
InitOrch ==
    /\ running = TRUE
    /\ cycleCount = 0
    /\ pc = "boot"
    /\ idx = 1
    /\ jdx = 1
    /\ memOpen = [a \in AgentNames |-> TRUE]
    /\ agentBets = [a \in AgentNames |-> <<>>]
    /\ agentContexts = <<>>
    /\ allActions = NoActions
    /\ freshMarkets = {}
    /\ trace = NoTrace
    /\ ValIdle
    /\ LedgerIdle
    /\ ResearchIdle

NextOrch ==
    \/ Wake
    \/ GetMarkets
    \/ FetchChatAndOdds
    \/ DoResearch
    \/ GetAllResearch
    \/ CheckResolutionsOf
    \/ MonitorBalances
    \/ CollectContext
    \/ ThinkAll
    \/ ExecuteAction
    \/ PushAllStats
    \/ Stop
    \/ ProcessExit

SpecOrch == InitOrch /\ [][NextOrch]_vars

---------------------------------------------------------------------------
(* Decision Validator: properties *)

RECURSIVE BetSum(_)
BetSum(s) ==
    IF s = <<>> THEN 0
    ELSE (IF Head(s).type = "bet" THEN Head(s).amount.v ELSE 0) + BetSum(Tail(s))

Returned == vpc = "done" /\ ~validated.threw

\* The raw element passes every check of a bet but the budget.
WellFormedBet(a) ==
    /\ a.type = "bet"
    /\ Coerce(a.marketId).k = "num" /\ Coerce(a.marketId).v \in markets
    /\ \/ Coerce(a.outcome).k = "inf"
       \/ Coerce(a.outcome).k = "num" /\ Coerce(a.outcome).v >= 0
    /\ \/ Coerce(a.amount).k = "inf"
       \/ Coerce(a.amount).k = "num" /\ Coerce(a.amount).v > 0

ExceedsMax(a) ==
    \/ Coerce(a.amount).k = "inf"
    \/ Coerce(a.amount).k = "num" /\ Coerce(a.amount).v > MaxBetOf(config)

\* min(amount, maximum) of a well-formed raw bet
ClampedAmount(a) ==
    IF ExceedsMax(a) THEN MaxBetOf(config) ELSE Coerce(a.amount).v

\* The sum of the clamped amounts of the bets accepted at positions < i.
RECURSIVE AcceptedBefore(_)
AcceptedBefore(i) ==
    IF i <= 1 THEN 0
    ELSE AcceptedBefore(i - 1)
            + (IF validated.keep[i - 1] /\ rawActions.items[i - 1].type = "bet"
                   THEN ClampedAmount(rawActions.items[i - 1]) ELSE 0)

RECURSIVE SelectKept(_, _)
SelectKept(items, keep) ==
    IF items = <<>> THEN <<>>
    ELSE (IF Head(keep) THEN <<Head(items)>> ELSE <<>>)
            \o SelectKept(Tail(items), Tail(keep))

\* C1: the amounts of the bet actions validateActions returns sum to at most
\* the balance the call was given.
C1_BetSumWithinBalance ==
    Returned => BetSum(validated.out) <= balance

\* a call that spent the whole balance and turned a well-formed bet away
C1_Witness ==
    /\ Returned
    /\ balance > 0
    /\ BetSum(validated.out) = balance
    /\ \E i \in 1..Len(rawActions.items) :
          WellFormedBet(rawActions.items[i]) /\ ~validated.keep[i]

\* C2: every returned bet has amount <= the configured maximum, and a bet whose
\* raw amount exceeds the maximum is kept, with amount equal to the maximum,
\* whenever the maximum still fits the remaining budget.
C2_ClampNotReject ==
    Returned =>
        /\ \A k \in 1..Len(validated.out) :
              validated.out[k].type = "bet" =>
                  /\ validated.out[k].amount.k = "num"
                  /\ validated.out[k].amount.v <= MaxBetOf(config)
        /\ \A i \in 1..Len(rawActions.items) :
              (/\ WellFormedBet(rawActions.items[i])
               /\ ExceedsMax(rawActions.items[i])
               /\ AcceptedBefore(i) + MaxBetOf(config) <= balance)
              => /\ validated.keep[i]
                 /\ validated.items[i].amount = Num(MaxBetOf(config))

\* a bet above the maximum came back with the maximum as its amount
C2_Witness ==
    /\ Returned
    /\ \E i \in 1..Len(rawActions.items) :
          /\ WellFormedBet(rawActions.items[i])
          /\ ExceedsMax(rawActions.items[i])
          /\ validated.keep[i]
          /\ validated.items[i].amount = Num(MaxBetOf(config))
          /\ validated.items[i] \in {validated.out[k] : k \in 1..Len(validated.out)}

\* balance 4.0, maximum 2.0, proposals [bet 1.5, bet 3.0, bet 1.0]
ExampleCall ==
    /\ Returned
    /\ rawActions = [arr |-> TRUE, items |-> <<GoodBet(3), GoodBet(6), GoodBet(2)>>]
    /\ balance = 8
    /\ MaxBetOf(config) = 4

\* C3 as the specification states it: the example returns [bet 1.5, bet 1.0].
C3_Original ==
    ExampleCall => validated.out = <<GoodBet(3), GoodBet(2)>>

\* C3: the example returns [bet 1.5, bet 2.0]: the second proposal is clamped
\* to 2.0 and accepted (1.5 + 2.0 <= 4.0), the third is rejected (3.5 + 1.0 > 4.0).
C3_ExampleResult ==
    ExampleCall =>
        /\ validated.out = <<GoodBet(3), GoodBet(4)>>
        /\ validated.keep = <<TRUE, TRUE, FALSE>>

C3_Witness == ExampleCall

\* C4: a well-formed bet at position i is accepted exactly when the clamped
\* amounts of the bets accepted before it plus its own clamped amount are at
\* most the balance; the output is the kept elements in input order.
C4_AcceptInOrder ==
    Returned /\ rawActions.arr =>
        /\ Len(validated.keep) = Len(rawActions.items)
        /\ \A i \in 1..Len(rawActions.items) :
              WellFormedBet(rawActions.items[i]) =>
                  (validated.keep[i] <=>
                      AcceptedBefore(i) + ClampedAmount(rawActions.items[i]) <= balance)
        /\ validated.out = SelectKept(validated.items, validated.keep)
        /\ \A i \in 1..Len(rawActions.items) :
              validated.keep[i] /\ rawActions.items[i].type = "bet" =>
                  validated.items[i] =
                      [CoerceFields(rawActions.items[i]) EXCEPT
                          !.amount = Num(ClampedAmount(rawActions.items[i]))]

\* a bet was rejected and a later, smaller bet was accepted
C4_Witness ==
    /\ Returned
    /\ Len(rawActions.items) = 3
    /\ \A i \in 1..3 : WellFormedBet(rawActions.items[i])
    /\ validated.keep = <<TRUE, FALSE, TRUE>>
    /\ ClampedAmount(rawActions.items[3]) < ClampedAmount(rawActions.items[2])


---------------------------------------------------------------------------
(* Ledger: properties *)

Terminal(r) == r.result \in {"won", "lost", "voided"}

\* C5: once a row is won, lost or voided, no step of the ledger (a resolveBet
\* call with any arguments, a checkResolutions run) changes its state, its
\* realized pnl or its resolution timestamp.
C5_NoRegression ==
    [][\A i \in DOMAIN bets :
          Terminal(bets[i]) => i \in DOMAIN bets' /\ bets'[i] = bets[i]]_vars

\* a resolveBet call for the market of a row that was resolved at an earlier time
C5_Witness ==
    /\ lastCall.op = "resolveBet"
    /\ \E i \in DOMAIN bets :
          /\ bets[i].market_id = lastCall.marketId
          /\ Terminal(bets[i])
          /\ bets[i].resolved_at < now

PendingOn(rows, m) ==
    {i \in DOMAIN rows : rows[i].market_id = m /\ rows[i].result = "pending"}

Oldest(S) == CHOOSE i \in S : \A j \in S : i <= j

\* C6: when two or more rows of one market are pending, a resolveBet call for
\* that market makes the oldest of them terminal and leaves the others pending.
C6_OnlyOldestPending ==
    [][lastCall'.op = "resolveBet" /\ Cardinality(PendingOn(bets, lastCall'.marketId)) >= 2
          => \A i \in PendingOn(bets, lastCall'.marketId) :
                Terminal(bets'[i]) <=> i = Oldest(PendingOn(bets, lastCall'.marketId))]_vars

\* the row of the k-th pending wager, in the order getPendingBets reads them
PendingRow(rows, k) ==
    CHOOSE i \in PendingIds(rows) :
        Cardinality({j \in PendingIds(rows) : j <= i}) = k

\* the lookup raised, found no market, or found it still active
Quiet(ans) == ~ans.ok \/ ~ans.found \/ ans.status = "active"

Settled(ans) == ans.ok /\ ans.found /\ ans.status \in {"resolved", "voided"}

\* C27 (as the specification states it): in a checkResolutions run, a pending
\* wager whose lookup fails, or finds the market absent or still active, is
\* pending afterwards with its record unchanged; one whose lookup finds the
\* market resolved or voided is terminal afterwards.  Every run reads all the
\* pending wagers anew, so that a wager left pending is checked again.
C27_PendingUntilSettled ==
    [][lastCall'.op = "checkResolutions" =>
          /\ Len(lastCall'.answers) = Cardinality(PendingIds(bets))
          /\ \A k \in DOMAIN lastCall'.answers :
                LET i == PendingRow(bets, k)
                    ans == lastCall'.answers[k]
                IN  /\ Quiet(ans) => bets'[i] = bets[i]
                    /\ Settled(ans) => Terminal(bets'[i])]_vars

\* the lookups of one run gave the same answer for rows of the same market
SameAnswerPerMarket(rows, answers) ==
    \A k, l \in DOMAIN answers :
        rows[PendingRow(rows, k)].market_id = rows[PendingRow(rows, l)].market_id
            => answers[k] = answers[l]

\* C37 (as the specification states it): after a checkResolutions run, every
\* wager that was pending and whose market the lookup found resolved is won
\* exactly when its own outcome is the winning outcome, and if it is lost its
\* pnl is minus its own amount; also when several wagers on one market, with
\* different outcomes and amounts, were pending.
C37_OwnOutcomeOwnAmount ==
    [][/\ lastCall'.op = "checkResolutions"
       /\ Len(lastCall'.answers) = Cardinality(PendingIds(bets))
       /\ SameAnswerPerMarket(bets, lastCall'.answers)
       => \A k \in DOMAIN lastCall'.answers :
             LET i == PendingRow(bets, k)
                 ans == lastCall'.answers[k]
             IN  ans.ok /\ ans.found /\ ans.status = "resolved" =>
                   /\ bets'[i].result \in {"won", "lost"}
                   /\ bets'[i].result = "won" <=> bets[i].outcome = ans.winning_outcome
                   /\ bets'[i].result = "lost" =>
                         bets'[i].pnl_near = Rat(-bets[i].amount_near, 1)]_vars

\* C38: every row of the ledger is pending, won, lost or voided; it has a
\* resolution timestamp exactly when it is not pending; and a pending or a
\* voided row has pnl 0.
C38_OneStateEach ==
    \A i \in DOMAIN bets :
        /\ bets[i].result \in {"pending", "won", "lost", "voided"}
        /\ bets[i].resolved_at # NoTime <=> bets[i].result # "pending"
        /\ bets[i].result \in {"pending", "voided"} => bets[i].pnl_near = Zero

\* a checkResolutions run has voided one wager and left another one pending
C38_Witness ==
    /\ lastCall.op = "checkResolutions"
    /\ \E i, j \in DOMAIN bets :
          /\ bets[i].result = "voided"
          /\ bets[j].result = "pending"

\* the rows of the ledger in state res
InState(res) == {i \in DOMAIN bets : bets[i].result = res}

\* the sum of the amounts, and of the pnl, of the rows S of the ledger
RECURSIVE AmountOver(_)
AmountOver(S) ==
    IF S = {} THEN 0
    ELSE LET i == CHOOSE j \in S : TRUE
         IN  bets[i].amount_near + AmountOver(S \ {i})

RECURSIVE PnlOver(_)
PnlOver(S) ==
    IF S = {} THEN Zero
    ELSE LET i == CHOOSE j \in S : TRUE
         IN  RatAdd(bets[i].pnl_near, PnlOver(S \ {i}))

\* C34: what getStats returns is what the rows of the ledger say: total is the
\* number of won, lost, voided and pending rows together, totalBet the sum
\* of all amounts, pnl the sum of the pnl of the rows that are not pending,
\* and winRate is won / (won + lost), and 0 when no row is won or lost.
C34_StatsRecomputed ==
    lastCall.op = "getStats" =>
        LET st      == lastCall.stats
            won     == Cardinality(InState("won"))
            lost    == Cardinality(InState("lost"))
            voided  == Cardinality(InState("voided"))
            pending == Cardinality(InState("pending"))
        IN  /\ st.total = won + lost + voided + pending
            /\ st.won = won /\ st.lost = lost /\ st.pending = pending
            /\ st.totalBet = AmountOver(DOMAIN bets)
            /\ st.pnl = PnlOver(DOMAIN bets \ InState("pending"))
            /\ won + lost = 0 => st.winRate = Zero
            /\ won + lost > 0 => st.winRate.n * (won + lost) = st.winRate.d * won

\* getStats on a ledger of one won and one voided wager: the win rate is 1
C34_Witness ==
    /\ lastCall.op = "getStats"
    /\ Cardinality(InState("won")) = 1
    /\ Cardinality(InState("voided")) = 1
    /\ lastCall.stats.winRate = Rat(1, 1)

\* C7: syncFromChain called on a ledger that holds a row writes nothing,
\* returns 0 and leaves every row as it was.
C7_NoMergeIntoNonEmpty ==
    [][lastCall'.op = "syncFromChain" /\ Len(bets) > 0
          => bets' = bets /\ lastCall'.ret = 0 /\ ~lastCall'.threw]_vars

\* a call that offered wagers fit for import and wrote none of them, the ledger
\* holding rows already
C7_Witness ==
    /\ lastCall.op = "syncFromChain"
    /\ lastCall.offered > 0
    /\ lastCall.ret = 0
    /\ ~lastCall.threw
    /\ Len(bets) > 0

\* the chain bets of the last call that are neither orphaned nor of an unknown market
Imported == SelectSeq(lastCall.chain, LAMBDA b : Qualifies(b, lastCall.mkts))

Wrote == lastCall.op = "syncFromChain" /\ Len(lastCall.chain) > 0

\* the state and pnl the specification gives the row imported for chain bet b
ImportedAsSpecified(row, b, market) ==
    /\ row.amount_near * YoctoPerUnit = b.amount
    /\ IF market.status = "resolved" /\ market.resolvedOutcome = b.outcome
           THEN /\ row.result = "won"
                /\ LET winPool == market.outcomePools[b.outcome + 1] IN
                   IF winPool = 0 THEN row.pnl_near = Zero
                   ELSE row.pnl_near.n * winPool =
                           row.pnl_near.d * (row.amount_near * market.totalPool
                                                - row.amount_near * winPool)
       ELSE IF market.status = "resolved"
           THEN row.result = "lost" /\ row.pnl_near = Rat(-row.amount_near, 1)
       ELSE IF market.status = "voided"
           THEN row.result = "voided" /\ row.pnl_near = Zero
       ELSE row.result = "pending" /\ row.pnl_near = Zero

\* total pool 100 NEAR, winning pool 40 NEAR, a wager of 10 NEAR on the winner
PoolExample ==
    /\ Wrote
    /\ lastCall.chain = <<ChainBet(1, 0, 200, MarketCreatedAt)>>
    /\ lastCall.mkts = <<Market(1, "resolved", 0, MarketCreatedAt, 2000, <<800, 1200>>)>>

\* C8: every row syncFromChain imports is won with pnl amount * totalPool /
\* winningPool - amount (0 when the winning pool is 0), lost with pnl -amount,
\* voided with pnl 0, or pending with pnl 0, as its market's status and winning
\* outcome say; the example wager of 10 NEAR wins 15 NEAR.
C8_ImportedPnl ==
    Wrote =>
        /\ Len(bets) = Len(Imported)
        /\ \A i \in DOMAIN bets :
              ImportedAsSpecified(bets[i], Imported[i],
                                  MarketById(lastCall.mkts, Imported[i].marketId))
        /\ PoolExample => bets[1].amount_near = 20 /\ bets[1].pnl_near = Rat(30, 1)

C8_Witness == PoolExample /\ Len(bets) = 1 /\ bets[1].result = "won"

\* C9: a syncFromChain call whose insert fails part-way leaves the ledger
\* empty and throws; a call that returns wrote every qualifying row.
C9_AllOrNothing ==
    lastCall.op = "syncFromChain" =>
        /\ lastCall.threw => bets = <<>> /\ lastCall.ret = 0
        /\ ~lastCall.threw /\ lastCall.ret > 0 =>
              Len(bets) = lastCall.offered /\ lastCall.ret = lastCall.offered

\* the second insert of a call failed after the first went through
C9_Witness ==
    /\ lastCall.op = "syncFromChain"
    /\ lastCall.threw
    /\ lastCall.inserted >= 1
    /\ bets = <<>>

\* the wager's market is in the list handed to the reconciliation
Listed(b, mkts) == \E i \in DOMAIN mkts : mkts[i].id = b.marketId

\* the wager was placed before its market was created
Predates(b, mkts) ==
    \E i \in DOMAIN mkts : mkts[i].id = b.marketId /\ b.timestamp < mkts[i].createdAt

\* the wagers of the last call the specification wants inserted, in order
ToInsert ==
    SelectSeq(lastCall.chain,
              LAMBDA b : Listed(b, lastCall.mkts) /\ ~Predates(b, lastCall.mkts))

\* C26 (state part): after a reconciliation that wrote, the ledger holds one
\* row for each wager that is on a listed market and does not predate it, in
\* the order of the history, and no row for any other wager.
InsertedOnceEach ==
    Wrote =>
        /\ Len(bets) = Len(ToInsert)
        /\ \A i \in DOMAIN bets :
              /\ bets[i].market_id = ToInsert[i].marketId
              /\ bets[i].outcome = ToInsert[i].outcome
              /\ bets[i].amount_near * YoctoPerUnit = ToInsert[i].amount

\* C26 (step part): the count a reconciliation returns is the number of rows
\* it added to the ledger.
CountIsRowsInserted ==
    lastCall'.op = "syncFromChain" /\ ~lastCall'.threw =>
        lastCall'.ret = Len(bets') - Len(bets)

\* C26: syncFromChain skips, without inserting, the wagers whose timestamp
\* predates the creation of their market and the wagers whose market is not
\* in the list; it inserts every other wager exactly once and returns the
\* number of rows inserted.
C26_SkipsOrphans == []InsertedOnceEach /\ [][CountIsRowsInserted]_vars

\* a history of an orphaned wager and a sound one: one row, count 1
C26_Witness ==
    /\ Wrote
    /\ Len(lastCall.chain) = 2
    /\ \E i \in 1..2 : Predates(lastCall.chain[i], lastCall.mkts)
    /\ Len(bets) = 1
    /\ lastCall.ret = 1

---------------------------------------------------------------------------
(* Research Cache: properties *)

RowsOf(m) == {i \in DOMAIN research : research[i].market_id = m}

\* the creation time of the youngest record of market m
YoungestAt(m) ==
    LET i == CHOOSE i \in RowsOf(m) :
                \A j \in RowsOf(m) : research[j].created_at <= research[i].created_at
    IN  research[i].created_at

\* C10: hasRecentResearch(m, M) is true at every time < T + M and false at
\* every time >= T + M, T being the creation time of m's youngest record; it
\* is false when m has no record.
C10_FreshUntilTtl ==
    lastFresh.called =>
        (lastFresh.fresh <=>
            /\ RowsOf(lastFresh.marketId) # {}
            /\ rnow < YoungestAt(lastFresh.marketId) + lastFresh.ttl * TicksPerMinute)

\* a check made exactly one TTL after the youngest of two records was written
C10_Witness ==
    /\ lastFresh.called
    /\ ~lastFresh.fresh
    /\ Cardinality(RowsOf(lastFresh.marketId)) = 2
    /\ rnow = YoungestAt(lastFresh.marketId) + lastFresh.ttl * TicksPerMinute

\* C31 (step part): a step that changes the research table appends exactly one
\* record and leaves every record it held as it was.
AppendOnly ==
    research' # research =>
        /\ Len(research') = Len(research) + 1
        /\ SubSeq(research', 1, Len(research)) = research

\* C31 (state part): whatever getAllResearch returns has exactly one entry for
\* each market with a record, built from a record of that market whose
\* creation time is the greatest among the market's records.
CurrentIsYoungest ==
    /\ getAllResearch(research) # {}
    /\ \A f \in getAllResearch(research) :
          /\ DOMAIN f = {research[i].market_id : i \in DOMAIN research}
          /\ \A m \in DOMAIN f :
                /\ research[f[m]].market_id = m
                /\ \A j \in DOMAIN research :
                      research[j].market_id = m =>
                          research[j].created_at <= research[f[m]].created_at

\* C31: the research table is append-only, and getAllResearch returns one
\* entry per market with a record, the entry of greatest creation time, also
\* when several records share that time.
C31_AppendOnlyCurrent == []CurrentIsYoungest /\ [][AppendOnly]_vars

\* two records of one market written at the same time: either may be the entry
C31_Witness ==
    /\ Len(research) = 2
    /\ research[1] = research[2]
    /\ Cardinality(getAllResearch(research)) = 2

\* C32 (state part): no INSERT of a refresher is turned down.
NeverRejected == \A r \in Refreshers : ~agentScan[r].rejected

\* C32 (step part): a refresher whose oracle has answered appends its record,
\* whatever records the table holds by then; the check that let it through
\* was made before the call, and nothing is checked again before the write.
WritesUnconditionally ==
    research' # research =>
        \E r \in Refreshers :
            /\ agentScan[r].pc = "call"
            /\ agentScan'[r].pc = "idle"
            /\ research' = Append(research, [market_id |-> agentScan[r].m,
                                              created_at |-> rnow])

\* C32: the freshness gate is a check before the write and no lock: two
\* refreshers that both saw "not fresh" for a market both append, and the
\* write of the second is not refused on account of the first.
C32_GateIsNoLock == []NeverRejected /\ [][WritesUnconditionally]_vars

\* two records of one market, both younger than 30 minutes
C32_Witness ==
    /\ Len(research) = 2
    /\ research[1].market_id = research[2].market_id
    /\ \A i \in 1..2 : research[i].created_at > rnow - 30 * TicksPerMinute
    /\ \A r \in Refreshers : agentScan[r].pc = "idle"

\* the last check said "not fresh" for market m with the TTL of 30 minutes
SaidStale(m) ==
    /\ lastFresh.called
    /\ ~lastFresh.fresh
    /\ lastFresh.marketId = m
    /\ lastFresh.ttl = 30

\* C29 (step part): an oracle call of the research step, and the record it
\* may write, are for the market the freshness check has just answered "not
\* fresh" for; the market is one of the first 8 of the snapshot, and the step
\* has written no record for it before.
RefreshOnlyWhenStale ==
    scan'.calls > scan.calls \/ research' # research =>
        /\ scan.i <= 8
        /\ scan'.calls = scan.calls + 1
        /\ SaidStale(scan.mkts[scan.i].id)
        /\ \A k \in DOMAIN scan.wrote : scan.wrote[k] # scan.mkts[scan.i].id
        /\ research' # research =>
              research' = Append(research, [market_id |-> scan.mkts[scan.i].id,
                                            created_at |-> rnow'])

\* C29 (state part): no research step writes two records for one market; any
\* two records of one market are at least 30 minutes apart; without an agent
\* that can research nothing is asked or written.
RecordsApart ==
    /\ \A j, k \in DOMAIN scan.wrote : scan.wrote[j] = scan.wrote[k] => j = k
    /\ \A j, k \in DOMAIN research :
          j < k /\ research[j].market_id = research[k].market_id =>
              research[k].created_at - research[j].created_at >= 30 * TicksPerMinute
    /\ \A k \in DOMAIN research : research[k].market_id \in 1..8
    /\ ~scan.shark => scan.calls = 0 /\ research = <<>>

\* C29: the research step asks the oracle and writes a record for a market
\* only if hasRecentResearch was false for it immediately before, so that a
\* step writes at most one record per market and two records of a market are
\* at least 30 minutes apart; it runs only when an agent can research, and
\* only over the first 8 markets of the snapshot.
C29_RefreshOnlyWhenStale == []RecordsApart /\ [][RefreshOnlyWhenStale]_vars

\* the second record of market 1 was written exactly 30 minutes after the
\* first, by a step over a snapshot whose ninth market has a question
C29_Witness ==
    /\ scan.count = 2
    /\ Len(scan.mkts) = 8
    /\ \E j, k \in DOMAIN research :
          /\ j < k
          /\ research[j].market_id = 1
          /\ research[k].market_id = 1
          /\ research[k].created_at - research[j].created_at = 30 * TicksPerMinute

\* C30 (as the specification states it): an oracle call of a research step
\* that follows another one of the same step comes after the pacing delay.
C30_PacedCalls ==
    [][scan'.calls = scan.calls + 1 /\ scan.calls > 0 => scan.paced]_vars

---------------------------------------------------------------------------
(* Orchestrator: properties *)

NoDispatch ==
    /\ \A a \in AgentNames : trace.handed[a] = <<>>
    /\ trace.placed = 0
    /\ trace.recorded = 0

\* the agents pushAllStats can read the ledger of
Readable == {a \in AgentNames : memOpen[a]} \ trace.unreadable

\* pushAllStats ran and pushed the stats of every agent whose ledger it could read
StatsPublished == trace.statsRan /\ Readable \subseteq trace.published

\* C11: when the research store cannot be opened or queried, the freshness
\* check answers "not fresh" and does not raise, so the cycle is never
\* aborted by it.
C11_IsFreshFailsOpen == ~(trace.threw /\ trace.cause = "hasRecentResearch")

\* C12: a cycle calls thinkAll at most once, and exactly once when the
\* snapshot is not empty and the collection of contexts ended with at least
\* one context.
C12_OracleOncePerCycle ==
    /\ trace.oracleCalls <= 1
    /\ pc \in {"dispatch", "stats", "sleep"} /\ cycleCount > 0 =>
          (trace.oracleCalls = 1 <=> trace.snapshot = "some" /\ trace.contexts > 0)

\* the decision round of a cycle in which both agents had a context is over
C12_Witness ==
    /\ pc = "stats"
    /\ Len(agentContexts) = Len(agents)
    /\ allActions.called
    /\ trace.oracleCalls = 1

\* C13: a cycle whose snapshot is empty goes to pushAllStats and then to the
\* sleep; it calls neither thinkAll nor the research LLM, dispatches nothing
\* and does not throw, and the stats of every agent whose ledger can be read
\* are pushed.
C13_EmptySnapshot ==
    trace.snapshot = "empty" =>
        /\ pc \in {"stats", "sleep"}
        /\ ~trace.threw
        /\ trace.oracleCalls = 0
        /\ trace.researchCalls = 0
        /\ NoDispatch
        /\ pc = "sleep" => StatsPublished

\* the cycle of an empty snapshot has pushed the stats of both agents
C13_Witness ==
    /\ pc = "sleep"
    /\ trace.snapshot = "empty"
    /\ trace.published = AgentNames

\* the agents that have a context in this cycle
WithContext == {agentContexts[i].agent : i \in DOMAIN agentContexts}

ContextOf(a) == agentContexts[CHOOSE i \in DOMAIN agentContexts : agentContexts[i].agent = a]

\* C14: when thinkAll returns, every agent with a context has an entry: the
\* raw actions the oracle gave for it, validated with its own balance and
\* configuration, or no action and an empty reasoning where the oracle gave
\* no entry; the cycle does not throw, and by the time the dispatch loop is
\* over each agent's validated actions have been handed to executeAction in
\* order.
C14_MissingEntryIsEmpty ==
    allActions.ok =>
        /\ ~trace.threw
        /\ DOMAIN allActions.out = WithContext
        /\ \A a \in WithContext :
              LET c == ContextOf(a)
                  e == allActions.resp[a]
                  r == allActions.out[a]
              IN  /\ ~e.present => r = [actions |-> <<>>, reasoning |-> ""]
                  /\ e.present =>
                        r.actions = validateActions(e.actions, markets, c.balance,
                                                    c.config).out
                  /\ pc = "stats" => trace.handed[a] = r.actions

\* the oracle answered for A and not for B, both had a context, and A's
\* wager, clamped to A's maximum, and A's message have been dispatched
C14_Witness ==
    /\ pc = "stats"
    /\ allActions.ok
    /\ WithContext = AgentNames
    /\ allActions.resp["A"].present
    /\ ~allActions.resp["B"].present
    /\ Len(trace.handed["A"]) = 2
    /\ trace.handed["A"][1].amount = Num(AgentConfig["A"].maxBetNear)
    /\ trace.handed["B"] = <<>>

\* C15 (state part): once thinkAll has raised, the cycle dispatches nothing,
\* does not throw, goes to pushAllStats and from there to the sleep.
OracleFailureHandled ==
    trace.oracleFailed =>
        /\ pc \in {"stats", "sleep"}
        /\ ~trace.threw
        /\ NoDispatch
        /\ pc = "sleep" => StatsPublished

\* C15 (step part): the sleep after such a cycle ends, while the
\* orchestrator has not been stopped, in the start of the next cycle.
OracleFailureGoesOn ==
    trace.oracleFailed /\ pc = "sleep" /\ running /\ pc' # pc =>
        pc' = "markets" /\ cycleCount' = cycleCount + 1

\* C15: a failure of the batched decision call dispatches no action of any
\* agent, still publishes the stats of every agent whose ledger can be read,
\* and is followed by the sleep and the next cycle.
C15_OracleFailure == []OracleFailureHandled /\ [][OracleFailureGoesOn]_vars

\* a cycle whose decision call failed has pushed the stats of both agents,
\* and the orchestrator, not stopped, sleeps
C15_Witness ==
    /\ pc = "sleep"
    /\ trace.oracleFailed
    /\ trace.published = AgentNames
    /\ running

\* C16: whichever path a cycle takes, pushAllStats has run by the time the
\* orchestrator sleeps.
C16_StatsOnEveryPath == pc = "sleep" => trace.statsRan

\* C17: while the resolution checks are under way no context has been
\* collected, and no wager that this cycle's checks resolved is among the
\* pending wagers of a context.
C17_ResolveBeforeDecide ==
    /\ pc = "resolve" => agentContexts = <<>>
    /\ \A i \in DOMAIN agentContexts :
          \A id \in agentContexts[i].myBets :
              <<agentContexts[i].agent, id>> \notin trace.resolved

\* an agent whose one wager was resolved in this cycle has its context, with
\* no pending wager in it
C17_Witness ==
    \E i \in DOMAIN agentContexts :
        /\ <<agentContexts[i].agent, 1>> \in trace.resolved
        /\ agentContexts[i].myBets = {}

\* C18: a cycle during which stop() was called, and in which nothing failed
\* on its own account, ends as it would have ended without the call: it
\* does not throw, every wager it placed is recorded in the ledger, and the
\* stats of every agent are pushed.
C18_StopAtCycleBoundary ==
    pc = "sleep" /\ trace.stopped /\ ~trace.faulty =>
        /\ ~trace.threw
        /\ trace.recorded = trace.placed
        /\ trace.statsRan
        /\ trace.published = AgentNames

\* what C18 is measured against: a cycle without a stop and without a
\* failure ends with every placed wager recorded and all stats pushed
UndisturbedCycle ==
    pc = "sleep" /\ ~trace.stopped /\ ~trace.faulty =>
        /\ ~trace.threw
        /\ trace.recorded = trace.placed
        /\ trace.statsRan
        /\ trace.published = AgentNames

\* C19 (state part): start() is left only after stop().
ExitsOnlyStopped == pc = "exited" => ~running

\* C19 (step part): a throw inside cycle() leads to the sleep, and the sleep
\* of an orchestrator that was not stopped ends in the start of a new cycle.
LoopGoesOn ==
    /\ trace'.threw /\ ~trace.threw => pc' = "sleep"
    /\ pc = "sleep" /\ running /\ pc' # pc =>
          pc' = "markets" /\ cycleCount' = cycleCount + 1

\* C19: no error of a cycle ends the loop: after every cycle, one that threw
\* included, the orchestrator sleeps and then starts another cycle, until
\* stop() is called.
C19_NoFatalError == []ExitsOnlyStopped /\ [][LoopGoesOn]_vars

\* the cycle after one that threw is under way
C19_Witness == pc = "markets" /\ cycleCount = 2 /\ trace.prevThrew /\ running

\* C21 (as the specification states it): every error a cycle swallows, at the
\* chat fetch, the odds fetch, the research refresh, the resolution check,
\* the context collection, the action dispatch or the decision call, leaves
\* a log line or an observability event.
C21_NoSilentSwallow == ~trace.silent

\* C22 (as the specification states it): validateActions leaves the list it is
\* given, and every action in it, as they were before the call.
C22_LeavesInputAlone ==
    vpc = "done" => validated.items = rawActions.items

\* C23 (as the specification states it): a returned bet was given a market
\* id, an outcome and an amount that coerce to finite numbers.
Finite(x) == x.k = "num"

C23_RejectsNonFinite ==
    Returned =>
        \A i \in 1..Len(rawActions.items) :
            validated.keep[i] /\ rawActions.items[i].type = "bet" =>
                /\ Finite(Coerce(rawActions.items[i].marketId))
                /\ Finite(Coerce(rawActions.items[i].outcome))
                /\ Finite(Coerce(rawActions.items[i].amount))

\* C24 (as the specification states it): when the oracle's reply is read and
\* one agent's list holds a malformed element, thinkAll still returns, for
\* every agent with a context, the validation of its list without the
\* malformed elements.
Malformed(a) == a.type \in {"null", ""}

WellFormedOnly(actions) ==
    [actions EXCEPT !.items = SelectSeq(actions.items, LAMBDA a : ~Malformed(a))]

C24_MalformedExcludesOnlyItself ==
    allActions.called /\ allActions.resp # <<>> =>
        /\ allActions.ok
        /\ \A i \in DOMAIN agentContexts :
              allActions.out[agentContexts[i].agent].actions
                  = validateActions(
                        WellFormedOnly(allActions.resp[agentContexts[i].agent].actions),
                        markets, agentContexts[i].balance,
                        agentContexts[i].config).out

\* the bets of a list, in order
BetsOf(s) == SelectSeq(s, LAMBDA a : a.type = "bet")

\* a list without its chat and reply actions
WithoutMessages(actions) ==
    [actions EXCEPT
        !.items = SelectSeq(actions.items, LAMBDA a : a.type \notin {"chat", "reply"})]

\* the number of characters of a message that is a string
MessageLength(msg) == IF msg.k = "text" THEN msg.v ELSE 1

IsString(msg) == msg.k \in {"str", "text"}

\* C25: every returned action is a bet, a chat or a reply on a market of the
\* active snapshot; the message of a returned chat or reply is a string of 1
\* to 500 characters, a longer one being cut to 500 and not rejected; and the
\* bets returned are the ones returned for the list without its chats and
\* replies, so that these consume no budget.
C25_ShapeOfReturned ==
    Returned =>
        /\ \A k \in 1..Len(validated.out) :
              LET a == validated.out[k] IN
              /\ a.type \in {"bet", "chat", "reply"}
              /\ a.marketId.k = "num" /\ a.marketId.v \in markets
              /\ a.type \in {"chat", "reply"} =>
                    /\ IsString(a.message)
                    /\ MessageLength(a.message) \in 1..MessageLimit
        /\ \A i \in 1..Len(rawActions.items) :
              LET a == rawActions.items[i] IN
              (/\ a.type \in {"chat", "reply"}
               /\ HasMarket(markets, CoerceFields(a))
               /\ IsString(a.message)
               /\ MessageLength(a.message) > MessageLimit)
                  => /\ validated.keep[i]
                     /\ validated.items[i].message = Txt(MessageLimit)
        /\ BetsOf(validated.out)
              = BetsOf(validateActions(WithoutMessages(rawActions), markets,
                                       balance, config).out)

\* a message of more than 500 characters was cut and returned, and the bet
\* after it was given the whole balance
C25_Witness ==
    /\ Returned
    /\ Len(rawActions.items) = 2
    /\ rawActions.items[1].type = "chat"
    /\ MessageLength(rawActions.items[1].message) > MessageLimit
    /\ rawActions.items[2].type = "bet"
    /\ validated.keep = <<TRUE, TRUE>>
    /\ validated.out[1].message = Txt(MessageLimit)
    /\ validated.out[2].amount = Num(balance)

\* C28 (state part): an agent whose context collection failed has no entry in
\* what thinkAll returns and nothing of it is dispatched; every agent with a
\* context has an entry, and by the end of the dispatch loop all its
\* validated actions have been handed to executeAction.
NoContextNoDecision ==
    pc \in {"context", "think", "dispatch", "stats"} =>
        /\ \A a \in AgentNames \ WithContext :
              /\ trace.handed[a] = <<>>
              /\ allActions.ok => a \notin DOMAIN allActions.out
        /\ allActions.ok =>
              \A a \in WithContext :
                  /\ a \in DOMAIN allActions.out
                  /\ pc = "stats" => trace.handed[a] = allActions.out[a].actions

\* C28 (step part): the context loop of every cycle starts at the first agent
\* and, unless the process exits, is left only after the last one, whatever
\* happened the cycle before.
EveryAgentIsCandidate ==
    /\ pc # "context" /\ pc' = "context" => idx' = 1 /\ agentContexts' = <<>>
    /\ pc = "context" /\ pc' \notin {"context", "exited"} => idx = Len(agents)

\* C28: an agent whose context collection fails gets no decision and
\* dispatches nothing in that cycle, the other agents proceed as usual, and
\* the agent is a candidate again in the next cycle.
C28_ContextFailureIsLocal == []NoContextNoDecision /\ [][EveryAgentIsCandidate]_vars

\* in the cycle after one in which a context collection failed, one agent has
\* no context again and the other one's actions have all been dispatched
C28_Witness ==
    /\ cycleCount = 2
    /\ trace.prevMissed
    /\ trace.missed
    /\ pc = "stats"
    /\ allActions.ok
    /\ \E a \in WithContext : Len(trace.handed[a]) = 2

\* C33: a step changes the ledger of an agent only if it is that agent's
\* resolution check or the dispatch of one of that agent's actions; the
\* ledger of every other agent is left as it was.
C33_SingleWriter ==
    [][\A b \in AgentNames :
          agentBets'[b] # agentBets[b] =>
              \/ pc = "resolve" /\ idx <= Len(agents) /\ agents[idx] = b
              \/ pc = "dispatch" /\ idx <= Len(agentContexts)
                                   /\ agentContexts[idx].agent = b]_vars

\* A's resolution check has made A's wager terminal, and B's wager, on the
\* same market, is pending as before
C33_Witness ==
    /\ pc = "resolve"
    /\ idx = 2
    /\ trace.resolved = {<<"A", 1>>}
    /\ Len(agentBets["B"]) = 1
    /\ agentBets["B"][1].result = "pending"
    /\ agentBets["B"][1].market_id = agentBets["A"][1].market_id

\* the bet actions in a list, and the list without them
BetCount(list) == Cardinality({i \in DOMAIN list : list[i].type = "bet"})
NonBets(list) == SelectSeq(list, LAMBDA x : x.type # "bet")
IsPrefix(s, t) == Len(s) <= Len(t) /\ \A i \in DOMAIN s : s[i] = t[i]
AgentIndex(a) == CHOOSE i \in DOMAIN agents : agents[i] = a
Dispatching == pc \in {"dispatch", "stats"} /\ allActions.ok

\* C35: in the dispatch of a cycle wallet.placeBet is called once for every
\* bet action handed to executeAction, whether the placement went through or
\* not; the actions of an agent are handed in the order of its validated
\* list, all of them by the end of the loop, and the agents come one after
\* the other in the order of the contexts, none starting before the one
\* before it has finished.
C35_OnceEachInOrder ==
    Dispatching =>
        /\ trace.attempts =
               Cardinality({<<a, i>> \in AgentNames \X (1..MaxShapeActions) :
                               /\ i \in DOMAIN trace.handed[a]
                               /\ trace.handed[a][i].type = "bet"})
        /\ trace.attempts >= trace.placed
        /\ \A j \in DOMAIN agentContexts :
              LET a    == agentContexts[j].agent
                  list == allActions.out[a].actions
              IN  /\ IsPrefix(trace.handed[a], list)
                  /\ (pc = "stats" \/ j < idx) => trace.handed[a] = list
                  /\ (pc = "dispatch" /\ j > idx) => trace.handed[a] = <<>>
                  /\ (pc = "dispatch" /\ j = idx) => Len(trace.handed[a]) = jdx - 1
        /\ \A i, k \in DOMAIN trace.order :
              i < k => AgentIndex(trace.order[i]) <= AgentIndex(trace.order[k])
        /\ \A a \in AgentNames :
              Len(trace.handed[a]) =
                  Cardinality({i \in DOMAIN trace.order : trace.order[i] = a})

\* the first agent's bet was turned away by the wallet, its chat was sent
\* after that, and then the second agent's two actions were executed
C35_Witness ==
    /\ pc = "stats"
    /\ allActions.ok
    /\ trace.order = <<"A", "A", "B", "B">>
    /\ trace.handed["A"][1].type = "bet"
    /\ trace.handed["B"][1].type = "bet"
    /\ trace.attempts = 2
    /\ trace.placed = 0

\* C36 (state part): the wagers the dispatch has written and the bet events
\* it has pushed are never more than the placements that went through.
RecordedOnlyPlaced ==
    /\ trace.recorded <= trace.placed
    /\ trace.betEvents <= trace.placed

\* C36 (step part): a call of executeAction in which no placement went
\* through leaves every ledger as it was and pushes no bet event.
FailedPlacementLeavesLedger ==
    pc = "dispatch" /\ trace'.placed = trace.placed =>
        /\ agentBets' = agentBets
        /\ trace'.betEvents = trace.betEvents

\* C36: executeAction writes the wager to the ledger and pushes the bet
\* event only after wallet.placeBet went through: when the placement fails
\* the ledger is unchanged and no bet event is pushed.
C36_RecordAfterPlacement ==
    []RecordedOnlyPlaced /\ [][FailedPlacementLeavesLedger]_vars

\* one agent's placement failed and the other's went through: one wager was
\* written and one event pushed, and the first agent's ledger is empty
C36_Witness ==
    /\ pc = "stats"
    /\ trace.attempts = 2
    /\ trace.placed = 1
    /\ trace.betEvents = 1
    /\ \E a \in AgentNames :
          /\ BetCount(trace.handed[a]) = 1
          /\ agentBets[a] = <<>>

\* C39: an agent whose balance query raised has balance 0 in its context;
\* its validated list holds no bet, none is handed to executeAction, and its
\* chats and replies are the ones the validation keeps with any balance.
C39_FailedBalanceNoBets ==
    pc \in {"think", "dispatch", "stats"} =>
        \A j \in DOMAIN agentContexts :
            LET c == agentContexts[j]
                a == c.agent
            IN  a \in trace.noBalance =>
                  /\ c.balance = 0
                  /\ BetCount(trace.handed[a]) = 0
                  /\ allActions.ok =>
                        /\ BetCount(allActions.out[a].actions) = 0
                        /\ \A b \in ContractBalances :
                              NonBets(validateActions(allActions.resp[a].actions,
                                                      markets, b, c.config).out)
                                  = allActions.out[a].actions

\* A's balance query raised and the oracle proposed a bet and a chat for it:
\* only the chat was dispatched, while B's bet was placed
C39_Witness ==
    /\ pc = "stats"
    /\ allActions.ok
    /\ "A" \in trace.noBalance
    /\ HasBet(allActions.resp["A"])
    /\ Len(trace.handed["A"]) = 1
    /\ trace.handed["A"][1].type = "chat"
    /\ BetCount(trace.handed["B"]) = 1
    /\ trace.placed = 1

\* C20: a failure of one agent's ledger read at the head of its resolution
\* check does not make cycle() throw.
C20_IsolatedFailures == ~(trace.threw /\ trace.cause = "getPendingBets")

=============================================================================
